---- MODULE Spec2Model ----
(***************************************************************************)
(* Model of the job scheduling and anti-detection layer of the RPA worker  *)
(* (src/rpa/worker_v2.py, src/rpa/utils/anti_detection.py).                *)
(*                                                                         *)
(* The module holds several specifications over one set of variables:      *)
(*   SpecSelect    select_jobs_for_parallel applied to fetched batches     *)
(*   SpecCooldown  the per-engine cooldown tracking of RPAWorkerV2         *)
(*   SpecDedup     RequestDeduplicator.check_and_record over time          *)
(*   SpecHistory   check_and_record on deduplicators with a history        *)
(*   SpecDispatch  the parallel dispatch cycles of RPAWorkerV2.run         *)
(*   SpecCancel    the dispatch cycles when a shutdown signal can arrive   *)
(*   SpecSimilarity  RequestDeduplicator._calculate_similarity             *)
(*   SpecPacing    RequestQueue.record_request and calculate_delay         *)
(*   SpecRun       RPAWorkerV2.run from start-up to its return             *)
(*   SpecLoop      the iterations of the main loop and its error counter   *)
(*   SpecMerge     merge_sources (src/rpa/utils/source_utils.py)           *)
(*   SpecSpacing   the pacing delay of a job next to the cooldown tracking *)
(*   SpecSession   the session breaks of the main loop of RPAWorkerV2.run  *)
(*   SpecShutdown  a pacing wait and the heartbeat thread under signals    *)
(***************************************************************************)
EXTENDS Integers, Sequences, FiniteSets, TLC

VARIABLES
    pc,                     \* position of the control flow being modelled
    max_parallel_engines,   \* WorkerConfig.max_parallel_engines
    jobs,                   \* the batch returned by fetch_jobs_from_queue
    parallel_jobs,          \* result of select_jobs_for_parallel(jobs)
    now,                    \* time.time(), in whole seconds
    engine_last_request,    \* RPAWorkerV2.engine_last_request (dict)
    engine_error_count,     \* RPAWorkerV2.engine_error_count (dict)
    last_record,            \* history: arguments of the last record_engine_request
    fail_run,               \* history: per engine, length of the current run of
                            \*   consecutive record(engine, False) calls
    run_base,               \* history: per engine, the error count the current
                            \*   run of failures started from
    recent_prompts,         \* RequestDeduplicator.recent_prompts (deque)
    dedup_call,             \* history: arguments of the last check_and_record
    dedup_result,           \* the dict returned by the last check_and_record
    use_multiprocessing,    \* WorkerConfig.use_multiprocessing
    next_id,                \* number of jobs the queue has handed out so far
    claimed_jobs,           \* result of claim_jobs(parallel_jobs)
    accepted,               \* Job Source: ids it accepted in the claim call of
                            \*   the current cycle
    unit,                   \* execution units of the current cycle, and units
                            \*   of earlier cycles that have not finished:
                            \*   job id -> [engine, prompt_text, state]
    pending,                \* as_completed: futures not yet finished when it
                            \*   last looked
    finished_batch,         \* as_completed: finished futures about to be yielded
    processed,              \* local counter of process_jobs_parallel
    consecutive_errors,     \* local counter of run
    stats,                  \* ThreadSafeStats._data
    ingest_calls,           \* Job Source, for the jobs claimed in the current
                            \*   cycle: job id -> number of completion calls
    patch_calls,            \* Job Source, for the jobs claimed in the current
                            \*   cycle: job id -> success flags of the
                            \*   patch_status calls received, in order
    outcome,                \* history, for the jobs claimed in the current
                            \*   cycle: job id -> terminal outcomes the
                            \*   scheduler has recorded, in order
    timed_out,              \* history: [id, engine] of the jobs whose unit had
                            \*   not returned when as_completed raised
                            \*   TimeoutError
    prompts_run,            \* history: <<engine, normalized prompt>> of the
                            \*   jobs whose unit went on to the adapter
    args,                   \* arguments of the pure function under study
    ret,                    \* <<what the function returned>>, <<>> before the call
    request_history,        \* RequestQueue.request_history (deque of times)
    current_backoff_level,  \* RequestQueue.current_backoff_level, in halves:
                            \*   the float takes the values 0, 0.5, 1, ...
    queue_engine_last_request, \* RequestQueue.engine_last_request (dict)
    pace_call,              \* history: the last RequestQueue call and the
                            \*   number of record_request calls so far
    delay,                  \* <<what the last calculate_delay returned>>, in
                            \*   milliseconds, with the amounts it added
    run_pc,                 \* position of run()
    parallel_mode,          \* WorkerConfig.parallel_mode
    running,                \* RPAWorkerV2.running
    cycles,                 \* history: iterations of the main loop so far
    attempt,                \* loop variable of the start-up retry loops
    exit_status,            \* what run() returned, "none" while it runs
    offline_calls,          \* Job Source: deregistration calls received
    heartbeat,              \* heartbeats: whether the heartbeat thread is
                            \*   alive, the _send_heartbeat calls so far, how
                            \*   many failed, and who made the last one
    last_sleep,             \* history: the sleep of the last loop iteration
    error_run,              \* history: [len, base], the number of loop
                            \*   iterations in a row that ended in the except
                            \*   branch and the counter the run started from
    prompts_this_session,   \* AntiDetectionManager.prompts_this_session of
                            \*   the worker's anti-detection system
    jobs_run,               \* history: jobs whose prompt went to the adapter
                            \*   in this session, in any execution unit
    break_taken,            \* the session break the main loop slept before
                            \*   its latest dispatch, "none" without one
    wait,                   \* RequestQueue.wait_for_slot: whether a call is
                            \*   sleeping and the local variable remaining
    hb_pc,                  \* position of the heartbeat thread in its loop:
                            \*   at the while test or in _send_heartbeat
    fetch_failures,         \* history: fetch_jobs_from_queue calls that did
                            \*   not get a batch from the Job Source
    jobs_claimed            \* history: jobs claim_jobs has returned so far

selVars == <<pc, max_parallel_engines, jobs, parallel_jobs>>

coolVars == <<now, engine_last_request, engine_error_count>>

coolHist == <<last_record, fail_run, run_base>>

dedupVars == <<recent_prompts, dedup_call, dedup_result>>

\* the variables of the dispatch cycles other than the error counter of run
dispRest == <<use_multiprocessing, next_id, claimed_jobs, accepted, unit, pending,
              finished_batch, processed, stats, ingest_calls, patch_calls,
              outcome, timed_out, prompts_run>>

dispVars == <<dispRest, consecutive_errors>>

pureVars == <<args, ret>>

paceVars == <<request_history, current_backoff_level, queue_engine_last_request,
              pace_call, delay>>

runVars == <<run_pc, parallel_mode, running, cycles, attempt, exit_status,
             offline_calls, heartbeat, last_sleep, error_run>>

sessVars == <<prompts_this_session, jobs_run, break_taken>>

auxVars == <<wait, hb_pc, fetch_failures, jobs_claimed>>

extVars == <<pureVars, paceVars, runVars, sessVars, auxVars>>

vars == <<selVars, coolVars, coolHist, dedupVars, dispVars, extVars>>

----------------------------------------------------------------------------
(* Bounds *)

MaxBatch == 4       \* longest fetched batch explored
MaxParallel == 2    \* largest configured max_parallel_engines explored
MaxRecords == 4     \* record_engine_request calls explored
MaxTicks == 3       \* clock advances explored
MaxChecks == 2      \* check_and_record calls explored
MaxWindowTicks == 3 \* half-window clock advances explored
MaxJobs == 2        \* jobs the queue hands out in a run of SpecDispatch
MaxFetch == 2       \* longest batch fetched in SpecDispatch
MaxPaceRecords == 8 \* RequestQueue.record_request calls explored
MaxCycles == 6      \* iterations of the main loop explored in SpecRun
MaxSignals == 2     \* shutdown signals explored in SpecRun
MaxHeartbeats == 1  \* heartbeats of the heartbeat thread explored
MaxPaceTicks == 1   \* clock advances explored in SpecPacing
MaxExisting == 1    \* longest list of existing sources explored
MaxAdditions == 3   \* longest list of additions explored
MaxSpaceJobs == 3   \* jobs run in SpecSpacing
MaxSpaceTicks == 2  \* clock advances explored in SpecSpacing
MaxSessionCycles == 11  \* iterations of the main loop explored in SpecSession

(* Inputs *)

\* engine names a fetched job may carry: known engines and one engine that
\* is not in engine_order
Engines == {"chatgpt", "gemini", "copilot"}


\* the two prompts of the duplicate scenario: they differ in case and in
\* the question mark at the end
CapitalQuestion ==
    <<"W", "h", "a", "t", " ", "i", "s", " ", "t", "h", "e", " ", "c",
      "a", "p", "i", "t", "a", "l", " ", "o", "f", " ", "F", "r", "a",
      "n", "c", "e", "?">>

CapitalPlain ==
    <<"w", "h", "a", "t", " ", "i", "s", " ", "t", "h", "e", " ", "c",
      "a", "p", "i", "t", "a", "l", " ", "o", "f", " ", "f", "r", "a",
      "n", "c", "e">>

\* prompt texts, as sequences of characters: empty and blank texts, texts
\* that differ in case, in blanks at the ends and in runs of blanks, and
\* texts with the same words in another order
Prompts ==
    { <<>>,
      <<" ">>,
      <<"a">>,
      <<"A">>,
      <<" ", "a", " ">>,
      <<"a", " ", "a">>,
      <<"A", " ", " ", "a">>,
      <<"a", "a">>,
      <<"a", " ", "a", "a">>,
      <<"A", "A", " ", "a">>,
      CapitalQuestion,
      CapitalPlain }

\* the jobs of SpecDispatch: two engines, one priority, one prompt text, so
\* that a second job for an engine repeats the prompt of the first
DispEngines == {"chatgpt", "gemini"}


\* engines of the cooldown specification: one with a configured cooldown and
\* one that falls back to the default
CoolEngines == {"chatgpt", "copilot"}

----------------------------------------------------------------------------
(* Helpers *)

Max(a, b) == IF a >= b THEN a ELSE b

Min(a, b) == IF a <= b THEN a ELSE b

Range(s) == {s[i] : i \in 1..Len(s)}

\* d.get(k, default) on a dict modelled as a function
Get(d, k, default) == IF k \in DOMAIN d THEN d[k] ELSE default

\* d[k] = v
Put(d, k, v) == [x \in DOMAIN d \cup {k} |-> IF x = k THEN v ELSE d[x]]

EmptyDict == [x \in {} |-> 0]

----------------------------------------------------------------------------
(* select_jobs_for_parallel *)

\* priority_order.get(j.priority, 2)
PriorityOrder(p) ==
    CASE p = "immediate" -> 0
      [] p = "high"      -> 1
      [] p = "normal"    -> 2
      [] p = "low"       -> 3
      [] OTHER           -> 2

\* engine_order
EngineOrder == <<"chatgpt", "perplexity", "gemini", "grok">>

\* an unstable sort: the job is put before the jobs of equal key
RECURSIVE InsertSorted_Unstable(_, _)
InsertSorted_Unstable(j, s) ==
    IF s = <<>> THEN <<j>>
    ELSE IF PriorityOrder(Head(s).priority) < PriorityOrder(j.priority)
         THEN <<Head(s)>> \o InsertSorted_Unstable(j, Tail(s))
         ELSE <<j>> \o s

\* insertion of one job into an already sorted list, after every job whose
\* key is not larger (Python's sorted() is stable)
RECURSIVE InsertSorted(_, _)
InsertSorted(j, s) ==
    IF s = <<>> THEN <<j>>
    ELSE IF PriorityOrder(Head(s).priority) <= PriorityOrder(j.priority)
         THEN <<Head(s)>> \o InsertSorted(j, Tail(s))
         ELSE <<j>> \o s

\* sorted(jobs, key=lambda j: priority_order.get(j.priority, 2))
RECURSIVE SortedJobs(_)
SortedJobs(s) ==
    IF s = <<>> THEN <<>>
    ELSE InsertSorted(s[Len(s)], SortedJobs(SubSeq(s, 1, Len(s) - 1)))

\* the membership test "job.engine not in selected_by_engine" left out
SelectedByEngine_NoEngineCheck(s, acc) == acc \o s

\* selected_by_engine: the first job of every engine in the sorted list, as
\* the list of the dict's values in insertion order
RECURSIVE SelectedByEngine(_, _)
SelectedByEngine(s, acc) ==
    IF s = <<>> THEN acc
    ELSE IF \E i \in 1..Len(acc) : acc[i].engine = Head(s).engine
         THEN SelectedByEngine(Tail(s), acc)
         ELSE SelectedByEngine(Tail(s), Append(acc, Head(s)))

\* first loop: for engine in engine_order, append and return once the
\* length reaches the cap; res.done tells that the function has returned
RECURSIVE KnownLoop(_, _, _, _)
KnownLoop(i, byEngine, sel, cap) ==
    IF i > Len(EngineOrder) THEN [selected |-> sel, done |-> FALSE]
    ELSE IF \E k \in 1..Len(byEngine) : byEngine[k].engine = EngineOrder[i]
         THEN LET job == byEngine[CHOOSE k \in 1..Len(byEngine) :
                                     byEngine[k].engine = EngineOrder[i]]
                  sel2 == Append(sel, job)
              IN  IF Len(sel2) >= cap
                  THEN [selected |-> sel2, done |-> TRUE]
                  ELSE KnownLoop(i + 1, byEngine, sel2, cap)
         ELSE KnownLoop(i + 1, byEngine, sel, cap)

\* second loop: engines not in engine_order, in dict order, break at the cap
RECURSIVE OtherLoop(_, _, _)
OtherLoop(byEngine, sel, cap) ==
    IF byEngine = <<>> THEN sel
    ELSE IF Head(byEngine).engine \notin Range(EngineOrder)
         THEN LET sel2 == Append(sel, Head(byEngine))
              IN  IF Len(sel2) >= cap THEN sel2
                  ELSE OtherLoop(Tail(byEngine), sel2, cap)
         ELSE OtherLoop(Tail(byEngine), sel, cap)

select_jobs_for_parallel(js, cap) ==
    LET byEngine == SelectedByEngine(SortedJobs(js), <<>>)
        known    == KnownLoop(1, byEngine, <<>>, cap)
    IN  IF known.done THEN known.selected
        ELSE OtherLoop(byEngine, known.selected, cap)

\* select_best_job: the first job of the batch sorted by priority, as a
\* list of one job, the empty list for None
select_best_job(js) ==
    IF js = <<>> THEN <<>> ELSE <<SortedJobs(js)[1]>>

----------------------------------------------------------------------------
(* Rate limiting: get_engine_cooldown_remaining, can_process_engine,       *)
(* record_engine_request                                                   *)

\* WorkerConfig.engine_cooldowns
EngineCooldowns == [chatgpt |-> 30, perplexity |-> 20, gemini |-> 15, grok |-> 15]

\* engine_cooldowns.get(engine, 15)
DefaultCooldown == 15

\* time.time() when the worker starts: seconds since the epoch, far larger
\* than any cooldown, so that the default last request time 0 is long ago
StartTime == 1000000

\* seconds the clock advances in one step of the model
TickSeconds == 10

\* the error penalty left out of the cooldown
EffectiveCooldown_NoPenalty(errs, engine) ==
    Get(EngineCooldowns, engine, DefaultCooldown)

\* the cooldown computed before the elapsed time is subtracted
EffectiveCooldown(errs, engine) ==
    LET cooldown    == Get(EngineCooldowns, engine, DefaultCooldown)
        error_count == Get(errs, engine, 0)
    IN  IF error_count > 0 THEN cooldown + error_count * 10
        ELSE cooldown

get_engine_cooldown_remaining(engine) ==
    LET last_request == Get(engine_last_request, engine, 0)
        time_since   == now - last_request
        remaining    == EffectiveCooldown(engine_error_count, engine) - time_since
    IN  Max(0, remaining)

can_process_engine(engine) ==
    LET remaining == get_engine_cooldown_remaining(engine)
    IN  <<remaining <= 0, remaining>>

\* a success handled like a reset of the counter
ErrorCountAfter_ResetOnSuccess(errs, engine, success) ==
    IF success
    THEN IF engine \in DOMAIN errs THEN Put(errs, engine, 0) ELSE errs
    ELSE Put(errs, engine, Get(errs, engine, 0) + 1)

\* engine_error_count after record_engine_request(engine, success)
ErrorCountAfter(errs, engine, success) ==
    IF success
    THEN IF engine \in DOMAIN errs
         THEN Put(errs, engine, Max(0, errs[engine] - 1))
         ELSE errs
    ELSE Put(errs, engine, Get(errs, engine, 0) + 1)

\* record_engine_request, with the history variables kept along
record_engine_request(engine, success) ==
    /\ engine_last_request' = Put(engine_last_request, engine, now)
    /\ engine_error_count' = ErrorCountAfter(engine_error_count, engine, success)
    /\ last_record' = [engine |-> engine, success |-> success, n |-> last_record.n + 1]
    /\ fail_run' = [fail_run EXCEPT ![engine] = IF success THEN 0 ELSE @ + 1]
    /\ run_base' = [run_base EXCEPT ![engine] =
                       IF success THEN 0
                       ELSE IF fail_run[engine] = 0
                            THEN Get(engine_error_count, engine, 0)
                            ELSE @]

----------------------------------------------------------------------------
(* RequestDeduplicator *)

\* window_minutes of the deduplicators the worker creates
WindowMinutes == 60

\* seconds the clock advances in one step of SpecDedup: half a window
HalfWindowSeconds == 1800

\* the characters str.split() separates words at
IsSpace(c) == c = " "

\* str.lower() on the characters of the prompt texts
LowerStr(s) ==
    [i \in 1..Len(s) |-> CASE s[i] = "A" -> "a"
                           [] s[i] = "W" -> "w"
                           [] s[i] = "F" -> "f"
                           [] OTHER      -> s[i]]

\* s.split(): the maximal runs of non-blank characters; cur is the word
\* being read, acc the words read so far
RECURSIVE SplitFrom(_, _, _)
SplitFrom(s, cur, acc) ==
    IF s = <<>> THEN (IF cur = <<>> THEN acc ELSE Append(acc, cur))
    ELSE IF IsSpace(Head(s))
         THEN SplitFrom(Tail(s), <<>>, IF cur = <<>> THEN acc ELSE Append(acc, cur))
         ELSE SplitFrom(Tail(s), Append(cur, Head(s)), acc)

Split(s) == SplitFrom(s, <<>>, <<>>)

\* " ".join(words)
RECURSIVE Join(_)
Join(words) ==
    IF words = <<>> THEN <<>>
    ELSE IF Len(words) = 1 THEN words[1]
         ELSE words[1] \o <<" ">> \o Join(Tail(words))

\* _normalize_prompt
NormalizePrompt(prompt) == Join(Split(LowerStr(prompt)))

\* a float that is a quotient of two counts
Ratio(n, d) == [num |-> n, den |-> d]

RatioGreater(x, y) == x.num * y.den > y.num * x.den

\* the quotient taken over the words of the first prompt instead of the
\* union
CalculateSimilarity_OverFirst(a, b) ==
    LET words_a == Range(Split(a))
        words_b == Range(Split(b))
    IN  IF words_a = {} \/ words_b = {} THEN Ratio(0, 1)
        ELSE Ratio(Cardinality(words_a \cap words_b), Cardinality(words_a))

\* _calculate_similarity: 0.0 when a word set is empty
CalculateSimilarity(a, b) ==
    LET words_a == Range(Split(a))
        words_b == Range(Split(b))
    IN  IF words_a = {} \/ words_b = {} THEN Ratio(0, 1)
        ELSE Ratio(Cardinality(words_a \cap words_b),
                   Cardinality(words_a \cup words_b))

\* result before the loop over recent_prompts
FreshResult ==
    [is_duplicate |-> FALSE, is_similar |-> FALSE,
     similarity_score |-> Ratio(0, 1), recommendation |-> "proceed"]

\* the window test left out: no entry is ever too old
OutOfWindow_Never(entry, t) == FALSE

\* entry["time"] < cutoff
OutOfWindow(entry, t) == entry.time < t - WindowMinutes * 60

\* the loop of check_and_record over the entries, oldest first, with the
\* result dict built so far.  A list of one entry is the body of the loop;
\* a longer list is run as its first half followed by its second half,
\* which keeps the evaluation shallow on a full deque.
RECURSIVE CheckLoop(_, _, _, _, _)
CheckLoop(entries, normalized, engine, t, result) ==
    IF entries = <<>> \/ result.is_duplicate THEN result  \* end of list, or break
    ELSE IF Len(entries) > 1
    THEN LET half == Len(entries) \div 2
         IN  CheckLoop(SubSeq(entries, half + 1, Len(entries)), normalized, engine, t,
                       CheckLoop(SubSeq(entries, 1, half), normalized, engine, t, result))
    ELSE LET entry == entries[1]
         IN  IF OutOfWindow(entry, t)
             THEN result
             ELSE IF entry.engine # engine
             THEN result
             ELSE IF entry.normalized = normalized
             THEN [result EXCEPT !.is_duplicate = TRUE,
                                 !.similarity_score = Ratio(1, 1),
                                 !.recommendation = "skip_or_delay"]
             ELSE LET similarity == CalculateSimilarity(entry.normalized, normalized)
                      r1 == IF RatioGreater(similarity, result.similarity_score)
                            THEN [result EXCEPT !.similarity_score = similarity]
                            ELSE result
                  IN  IF RatioGreater(similarity, Ratio(85, 100))
                      THEN [r1 EXCEPT !.is_similar = TRUE,
                                      !.recommendation = "add_delay"]
                      ELSE r1

\* append without eviction
DequeAppend_NoEvict(d, x, maxlen) == Append(d, x)

\* deque.append on a deque with maxlen
DequeAppend(d, x, maxlen) ==
    IF Len(d) >= maxlen THEN Append(Tail(d), x) ELSE Append(d, x)

\* check_and_record(prompt, engine) on the deque recent at time t: the
\* returned dict and the deque afterwards
CheckAndRecord(recent, prompt, engine, t) ==
    LET normalized == NormalizePrompt(prompt)
    IN  [result |-> CheckLoop(recent, normalized, engine, t, FreshResult),
         recent |-> DequeAppend(recent,
                        [normalized |-> normalized, engine |-> engine, time |-> t],
                        50)]  \* deque(maxlen=50)

\* RequestDeduplicator.__init__
InitDeduplicator ==
    /\ recent_prompts = <<>>
    /\ dedup_call = [prompt |-> <<>>, engine |-> "", n |-> 0]
    /\ dedup_result = FreshResult

----------------------------------------------------------------------------
(* RequestQueue: calculate_delay, record_request *)

\* delays are counted in units of 10 microseconds, so that a whole number
\* of seconds times a power of backoff_base is a whole number
Scale == 100000

Sec(x) == x * Scale

\* WorkerConfig.min_delay and max_delay, which the worker passes to
\* create_anti_detection_system, in seconds
MinDelaySeconds == 15

MaxDelaySeconds == 45

\* RateLimitConfig.max_requests_per_window
MaxRequestsPerWindow == 8

\* RateLimitConfig.night_hours
NightHours == <<1, 6>>

\* engine_cooldown in calculate_delay
QueueEngineCooldown == 15

\* deque(maxlen=100)
RequestHistoryMaxLen == 100

\* backoff_base ** current_backoff_level, times Scale, for the level in
\* halves: 1.5 ** (h / 2), exact for whole levels and rounded down for the
\* others
BackoffMultiplier(h) ==
    CASE h = 0  -> 100000
      [] h = 1  -> 122474
      [] h = 2  -> 150000
      [] h = 3  -> 183711
      [] h = 4  -> 225000
      [] h = 5  -> 275567
      [] h = 6  -> 337500
      [] h = 7  -> 413351
      [] h = 8  -> 506250
      [] h = 9  -> 620027
      [] h = 10 -> 759375

\* the random draws of one calculate_delay call: the gaussian sample and the
\* uniform samples in seconds, whether random() < 0.2 (the pause is drawn
\* only then), and the hour of day
DelayDraws ==
    [gauss : {-5, 30, 70}, burst : {30, 60}, engine : {2, 5},
     think : {FALSE}, pause : {0}, hour : {1, 6}]
    \cup
    [gauss : {-5, 30, 70}, burst : {30, 60}, engine : {2, 5},
     think : {TRUE}, pause : {5, 15}, hour : {1, 6}]

\* the gaussian sample used as it is
ClampDelay_NoClamp(g) == g

\* max(min_delay_seconds, min(max_delay_seconds, base_delay))
ClampDelay(g) == Max(Sec(MinDelaySeconds), Min(Sec(MaxDelaySeconds), g))

\* _count_recent_requests(window_seconds) at time t
CountRecentRequests(history, window_seconds, t) ==
    Cardinality({i \in 1..Len(history) : history[i] > t - window_seconds})

\* calculate_delay(engine) at time t with the draws d: the delay returned
\* and the amounts the burst, night and thinking steps added to it
calculate_delay(engine, t, d) ==
    LET base0 == ClampDelay(Sec(d.gauss))
        base1 == IF current_backoff_level > 0
                 THEN Min((base0 \div Scale) * BackoffMultiplier(current_backoff_level),
                          Sec(10 * 60))  \* max_backoff_minutes = 10
                 ELSE base0
        recent_requests == CountRecentRequests(request_history, 300, t)  \* burst_window_seconds
        base2 == IF recent_requests >= MaxRequestsPerWindow
                 THEN Max(base1, Sec(d.burst)) ELSE base1
        base3 == IF NightHours[1] <= d.hour /\ d.hour < NightHours[2]
                 THEN base2 * 2 ELSE base2
        time_since_engine == t - Get(queue_engine_last_request, engine, 0)
        base4 == IF time_since_engine < QueueEngineCooldown
                 THEN Max(base3, Sec(QueueEngineCooldown - time_since_engine) + Sec(d.engine))
                 ELSE base3
        base5 == IF d.think THEN base4 + Sec(d.pause) ELSE base4
    IN  [delay |-> base5,
         burst_added |-> base2 - base1,
         night_added |-> base3 - base2,
         thinking_added |-> base5 - base4,
         level |-> current_backoff_level,
         recent_requests |-> recent_requests]

\* the level is raised without the cap
BackoffAfter_NoCap(level, success) ==
    IF success THEN Max(0, level - 1) ELSE level + 2

\* record_request: max(0, level - 0.5) on success, min(5, level + 1) on
\* failure, with the level in halves
BackoffAfter(level, success) ==
    IF success THEN Max(0, level - 1) ELSE Min(10, level + 2)

----------------------------------------------------------------------------
(* Initial values of the variables of the other specifications *)

\* no pure function is under study
InitPureIdle ==
    /\ args = <<>>
    /\ ret = <<>>

\* RequestQueue.__init__
InitRequestQueue ==
    /\ request_history = <<>>
    /\ current_backoff_level = 0
    /\ queue_engine_last_request = EmptyDict
    /\ pace_call = [op |-> "init", success |-> TRUE, n |-> 0, ticks |-> 0]
    /\ delay = <<>>

\* run() is in its main loop, the heartbeat thread is alive and no signal
\* has arrived
InitRunInLoop ==
    /\ run_pc = "loop"
    /\ parallel_mode = TRUE
    /\ running = TRUE
    /\ cycles = 0
    /\ attempt = 0
    /\ exit_status = "none"
    /\ offline_calls = 0
    /\ heartbeat = [alive |-> TRUE, calls |-> 1, failed |-> 0, by |-> "run"]
    /\ last_sleep = "none"
    /\ error_run = [len |-> 0, base |-> 0]
    /\ prompts_this_session = 0
    /\ jobs_run = 0
    /\ break_taken = "none"
    /\ wait = [state |-> "idle", remaining |-> 0]
    /\ hb_pc = "test"
    /\ fetch_failures = 0
    /\ jobs_claimed = 0

----------------------------------------------------------------------------
(* Specification SpecCooldown: any sequence of record_engine_request calls *)
(* and clock advances                                                      *)

\* RPAWorkerV2.__init__: nothing recorded yet
InitCooldown ==
    /\ now = StartTime
    /\ engine_last_request = EmptyDict
    /\ engine_error_count = EmptyDict
    /\ last_record = [engine |-> "", success |-> TRUE, n |-> 0]
    /\ fail_run = [e \in Engines |-> 0]
    /\ run_base = [e \in Engines |-> 0]

CoolRecord ==
    /\ last_record.n < MaxRecords
    /\ \E e \in CoolEngines, success \in BOOLEAN : record_engine_request(e, success)
    /\ UNCHANGED <<extVars, now, selVars, dedupVars, dispVars>>

CoolTick ==
    /\ now < StartTime + MaxTicks * TickSeconds
    /\ now' = now + TickSeconds
    /\ UNCHANGED <<extVars, engine_last_request, engine_error_count, coolHist, selVars, dedupVars, dispVars>>

\* RPAWorkerV2.__init__ and the start of run: nothing claimed, no unit, no
\* call received by the Job Source, counters at 0
InitScheduler ==
    /\ next_id = 0
    /\ claimed_jobs = <<>>
    /\ accepted = {}
    /\ unit = EmptyDict
    /\ pending = {}
    /\ finished_batch = {}
    /\ processed = 0
    /\ consecutive_errors = 0
    /\ stats = [jobs_processed |-> 0, jobs_failed |-> 0, jobs_skipped |-> 0,
                parallel_batches |-> 0]
    /\ ingest_calls = EmptyDict
    /\ patch_calls = EmptyDict
    /\ outcome = EmptyDict
    /\ timed_out = {}
    /\ prompts_run = {}

\* the scheduler variables of a worker with the default configuration
InitIdleDispatch ==
    /\ use_multiprocessing = TRUE
    /\ InitScheduler

\* the selection variables of a worker that has not fetched anything
InitIdleSelect ==
    /\ pc = "idle"
    /\ max_parallel_engines = 4
    /\ jobs = <<>>
    /\ parallel_jobs = <<>>

InitCool ==
    /\ InitIdleSelect
    /\ InitCooldown
    /\ InitDeduplicator
    /\ InitIdleDispatch
    /\ InitPureIdle
    /\ InitRequestQueue
    /\ InitRunInLoop


NextCooldown == CoolRecord \/ CoolTick

SpecCooldown == InitCool /\ [][NextCooldown]_vars

----------------------------------------------------------------------------
(* Specification SpecDedup: check_and_record calls and clock advances *)

DedupCheck ==
    /\ dedup_call.n < MaxChecks
    /\ \E prompt \in Prompts, engine \in {"chatgpt", "gemini"} :
          LET r == CheckAndRecord(recent_prompts, prompt, engine, now)
          IN  /\ recent_prompts' = r.recent
              /\ dedup_result' = r.result
              /\ dedup_call' = [prompt |-> prompt, engine |-> engine,
                                n |-> dedup_call.n + 1]
    /\ UNCHANGED <<extVars, selVars, coolVars, coolHist, dispVars>>

DedupTick ==
    /\ now < StartTime + MaxWindowTicks * HalfWindowSeconds
    /\ now' = now + HalfWindowSeconds
    /\ UNCHANGED <<extVars, engine_last_request, engine_error_count, coolHist, selVars, dedupVars, dispVars>>

InitDedup ==
    /\ InitIdleSelect
    /\ InitCooldown
    /\ InitDeduplicator
    /\ InitIdleDispatch
    /\ InitPureIdle
    /\ InitRequestQueue
    /\ InitRunInLoop


NextDedup == DedupCheck \/ DedupTick

SpecDedup == InitDedup /\ [][NextDedup]_vars


----------------------------------------------------------------------------
(* Specification SpecHistory: check_and_record calls on a deduplicator     *)
(* that has already recorded prompts: an almost full and a full deque, and *)
(* two prompts that share seven of their eight words                       *)

\* two prompts with a Jaccard similarity of 7/8
SimilarPrompts ==
    << <<"a", " ", "b", " ", "c", " ", "d", " ", "e", " ", "f", " ", "g">>,
       <<"a", " ", "b", " ", "c", " ", "d", " ", "e", " ", "f", " ", "g", " ", "h">> >>

HistCheck ==
    /\ dedup_call.n < MaxChecks
    /\ \E prompt \in {<<"a">>, SimilarPrompts[1], SimilarPrompts[2]},
          engine \in {"chatgpt", "gemini"} :
          LET r == CheckAndRecord(recent_prompts, prompt, engine, now)
          IN  /\ recent_prompts' = r.recent
              /\ dedup_result' = r.result
              /\ dedup_call' = [prompt |-> prompt, engine |-> engine,
                                n |-> dedup_call.n + 1]
    /\ UNCHANGED <<extVars, selVars, coolVars, coolHist, dispVars>>

\* the deduplicator has served n calls with the prompt "a" for gemini, one
\* a second, or one call for each of the similar prompts for chatgpt, and
\* holds their records; dedup_call counts the calls from here on
InitHistory ==
    /\ InitIdleSelect
    /\ InitCooldown
    /\ recent_prompts \in
          { [i \in 1..n |-> [normalized |-> <<"a">>, engine |-> "gemini",
                              time |-> StartTime - 100 + i]] : n \in {0, 49, 50} }
          \cup
          { <<[normalized |-> SimilarPrompts[1], engine |-> "chatgpt",
               time |-> StartTime - 2],
              [normalized |-> SimilarPrompts[2], engine |-> "chatgpt",
               time |-> StartTime - 1]>> }
    /\ dedup_call = [prompt |-> <<>>, engine |-> "", n |-> 0]
    /\ dedup_result = FreshResult
    /\ InitIdleDispatch
    /\ InitPureIdle
    /\ InitRequestQueue
    /\ InitRunInLoop

NextHistory == HistCheck \/ DedupTick

SpecHistory == InitHistory /\ [][NextHistory]_vars

----------------------------------------------------------------------------
(* Specification SpecSimilarity: _calculate_similarity on two normalized   *)
(* prompts, in both orders                                                 *)

\* the texts check_and_record passes to _calculate_similarity
NormalizedPrompts == {NormalizePrompt(p) : p \in Prompts}

InitSimilarity ==
    /\ InitIdleSelect
    /\ InitCooldown
    /\ InitDeduplicator
    /\ InitIdleDispatch
    /\ args \in NormalizedPrompts \X NormalizedPrompts
    /\ ret = <<>>
    /\ InitRequestQueue
    /\ InitRunInLoop

SimCall ==
    /\ ret = <<>>
    /\ ret' = <<[ab |-> CalculateSimilarity(args[1], args[2]),
                 ba |-> CalculateSimilarity(args[2], args[1])]>>
    /\ UNCHANGED <<selVars, coolVars, coolHist, dedupVars, dispVars, args,
                   paceVars, runVars, sessVars, auxVars>>

NextSimilarity == SimCall

SpecSimilarity == InitSimilarity /\ [][NextSimilarity]_vars

----------------------------------------------------------------------------
(* merge_sources *)

\* a source dict with the keys the engines write
Src(url, title, domain) ==
    ("url" :> url) @@ ("title" :> title) @@ ("domain" :> domain)

\* the dicts of test_merge_sources_dedupes, with the URLs and domains
\* abbreviated ("a/x" for "https://a.com/x", "b" for "https://b.com", "w.b/y"
\* for "https://www.b.com/y")
SrcA  == Src(<<"a", "/", "x">>, <<"A">>, <<"a">>)
SrcA2 == Src(<<"a", "/", "x">>, <<"A", "2">>, <<"a">>)
SrcB  == Src(<<"b">>, <<"B">>, <<"b">>)
SrcB2 == Src(<<"w", ".", "b", "/", "y">>, <<"B", "2">>, <<"b">>)

\* the sources merged: the dicts of the test, the first URL with blanks
\* around it, two dicts without a URL whose domains differ in case only, a
\* dict with neither URL nor domain, and the empty dict
SourceEntries ==
    { SrcA, SrcA2, SrcB, SrcB2,
      Src(<<" ", "a", "/", "x", " ">>, <<"A", "3">>, <<"a">>),
      ("title" :> <<"F">>) @@ ("domain" :> <<"F">>),
      ("title" :> <<"f">>) @@ ("domain" :> <<" ", "f">>),
      ("title" :> <<"T">>),
      EmptyDict }

\* the sources a response holds before the merge: with a URL, without a
\* URL, and with neither URL nor domain
ExistingEntries ==
    { SrcA, SrcB2,
      ("title" :> <<"F">>) @@ ("domain" :> <<"F">>),
      ("title" :> <<"T">>) }

RECURSIVE SeqsUpTo(_, _)
SeqsUpTo(S, n) ==
    IF n = 0 THEN {<<>>}
    ELSE LET shorter == SeqsUpTo(S, n - 1)
         IN  shorter \cup {Append(q, x) : q \in shorter, x \in S}

\* str.strip()
RECURSIVE StripLeft(_)
StripLeft(s) ==
    IF s # <<>> /\ IsSpace(Head(s)) THEN StripLeft(Tail(s)) ELSE s

RECURSIVE StripRight(_)
StripRight(s) ==
    IF s # <<>> /\ IsSpace(s[Len(s)])
    THEN StripRight(SubSeq(s, 1, Len(s) - 1))
    ELSE s

\* (s.get("url") or "").strip()
SourceUrl(s) == StripRight(StripLeft(Get(s, "url", <<>>)))

\* (s.get("domain") or "").strip().lower()
SourceDom(s) == LowerStr(StripRight(StripLeft(Get(s, "domain", <<>>))))

\* the characters of "domain:"
DomainPrefix == <<"d", "o", "m", "a", "i", "n", ":">>

\* the domain is always the key: sources are de-duplicated by domain
SourceKey_ByDomain(s) ==
    IF SourceDom(s) # <<>> THEN DomainPrefix \o SourceDom(s) ELSE SourceUrl(s)

\* key = url if url else (f"domain:{dom}" if dom else "")
SourceKey(s) ==
    IF SourceUrl(s) # <<>> THEN SourceUrl(s)
    ELSE IF SourceDom(s) # <<>> THEN DomainPrefix \o SourceDom(s)
    ELSE <<>>

\* the loop over the additions
RECURSIVE MergeLoop(_, _, _)
MergeLoop(merged, seen_keys, additions) ==
    IF additions = <<>> THEN merged
    ELSE LET s   == Head(additions)
             key == SourceKey(s)
         IN  IF s = EmptyDict \/ key = <<>> \/ key \in seen_keys
             THEN MergeLoop(merged, seen_keys, Tail(additions))
             ELSE MergeLoop(Append(merged, s), seen_keys \cup {key}, Tail(additions))

merge_sources(existing, additions) ==
    LET seen_keys == {SourceKey(existing[i]) : i \in 1..Len(existing)} \ {<<>>}
    IN  MergeLoop(existing, seen_keys, additions)

----------------------------------------------------------------------------
(* Specification SpecMerge: merge_sources on lists of sources *)

InitMerge ==
    /\ InitIdleSelect
    /\ InitCooldown
    /\ InitDeduplicator
    /\ InitIdleDispatch
    /\ args \in [existing  : SeqsUpTo(ExistingEntries, MaxExisting),
                  additions : SeqsUpTo(SourceEntries, MaxAdditions)]
    /\ ret = <<>>
    /\ InitRequestQueue
    /\ InitRunInLoop

MergeCall ==
    /\ ret = <<>>
    /\ ret' = <<merge_sources(args.existing, args.additions)>>
    /\ UNCHANGED <<selVars, coolVars, coolHist, dedupVars, dispVars, args,
                   paceVars, runVars, sessVars, auxVars>>

NextMerge == MergeCall

SpecMerge == InitMerge /\ [][NextMerge]_vars

----------------------------------------------------------------------------
(* Specification SpecPacing: record_request and calculate_delay calls on   *)
(* a RequestQueue, and clock advances                                      *)

PaceEngines == {"chatgpt"}

PaceRecord ==
    /\ pace_call.n < MaxPaceRecords
    /\ \E engine \in PaceEngines, success \in BOOLEAN :
          /\ request_history' = DequeAppend(request_history, now, RequestHistoryMaxLen)
          /\ queue_engine_last_request' = Put(queue_engine_last_request, engine, now)
          /\ current_backoff_level' = BackoffAfter(current_backoff_level, success)
          /\ pace_call' = [pace_call EXCEPT !.op = "record", !.success = success,
                                            !.n = @ + 1]
    /\ delay' = <<>>
    /\ UNCHANGED <<selVars, coolVars, coolHist, dedupVars, dispVars, pureVars, runVars, sessVars, auxVars>>

PaceCalc ==
    /\ delay = <<>>
    /\ \E engine \in PaceEngines \cup {"default"}, d \in DelayDraws :
          delay' = <<calculate_delay(engine, now, d)>>
    /\ pace_call' = [pace_call EXCEPT !.op = "calc"]
    /\ UNCHANGED <<selVars, coolVars, coolHist, dedupVars, dispVars, pureVars, runVars, sessVars, auxVars,
                   request_history, current_backoff_level, queue_engine_last_request>>

PaceTick ==
    /\ pace_call.ticks < MaxPaceTicks
    /\ \E dt \in {10, 300} : now' = now + dt
    /\ pace_call' = [pace_call EXCEPT !.op = "tick", !.ticks = @ + 1]
    /\ delay' = <<>>
    /\ UNCHANGED <<engine_last_request, engine_error_count, coolHist, selVars,
                   dedupVars, dispVars, pureVars, runVars, sessVars, auxVars, request_history,
                   current_backoff_level, queue_engine_last_request>>

InitPacing ==
    /\ InitIdleSelect
    /\ InitCooldown
    /\ InitDeduplicator
    /\ InitIdleDispatch
    /\ InitPureIdle
    /\ InitRequestQueue
    /\ InitRunInLoop

NextPacing == PaceRecord \/ PaceCalc \/ PaceTick

SpecPacing == InitPacing /\ [][NextPacing]_vars

----------------------------------------------------------------------------
(* Specification SpecSpacing: jobs for one target run one after the other; *)
(* each asks the RequestQueue of its anti-detection system for its delay   *)
(* and its outcome is recorded by the cooldown tracking                    *)


\* pre_request_routine -> wait_for_slot -> calculate_delay for a job on the
\* engine.  Under multiprocessing the anti-detection system is created by
\* process_job_worker for this job alone: its RequestQueue has recorded
\* nothing, like the one of the worker, which no unit ever touches.
SpaceCalc ==
    /\ delay = <<>>
    /\ pace_call.n < MaxSpaceJobs
    /\ \E engine \in {"chatgpt"}, d \in DelayDraws :
          /\ delay' = <<calculate_delay(engine, now, d)>>
          /\ args' = <<engine>>
    /\ pace_call' = [pace_call EXCEPT !.op = "calc"]
    /\ UNCHANGED <<selVars, coolVars, coolHist, dedupVars, dispVars, ret, runVars, sessVars, auxVars,
                   request_history, current_backoff_level, queue_engine_last_request>>

\* the job ends: post_request_routine records the request in the
\* RequestQueue of the unit (the worker's own one with threads and in
\* sequential mode, one that is discarded with the process under
\* multiprocessing), then the scheduler calls record_engine_request
SpaceRecord ==
    /\ delay # <<>>
    /\ \E success \in BOOLEAN :
          /\ IF use_multiprocessing
             THEN UNCHANGED <<request_history, queue_engine_last_request,
                              current_backoff_level>>
             ELSE /\ request_history' =
                         DequeAppend(request_history, now, RequestHistoryMaxLen)
                  /\ queue_engine_last_request' =
                         Put(queue_engine_last_request, args[1], now)
                  /\ current_backoff_level' = BackoffAfter(current_backoff_level, success)
          /\ record_engine_request(args[1], success)
          /\ pace_call' = [pace_call EXCEPT !.op = "record", !.success = success,
                                            !.n = @ + 1]
    /\ delay' = <<>>
    /\ UNCHANGED <<selVars, now, dedupVars, dispVars, pureVars, runVars, sessVars, auxVars>>

SpaceTick ==
    /\ delay = <<>>
    /\ pace_call.ticks < MaxSpaceTicks
    \* the pause between two jobs, or a time longer than the base cooldown
    /\ \E dt \in {3, 40} : now' = now + dt
    /\ pace_call' = [pace_call EXCEPT !.op = "tick", !.ticks = @ + 1]
    /\ UNCHANGED <<engine_last_request, engine_error_count, coolHist, selVars,
                   dedupVars, dispVars, pureVars, runVars, sessVars, auxVars, request_history,
                   current_backoff_level, queue_engine_last_request, delay>>

InitSpacing ==
    /\ InitIdleSelect
    /\ InitCooldown
    /\ InitDeduplicator
    /\ use_multiprocessing \in BOOLEAN
    /\ InitScheduler
    /\ InitPureIdle
    /\ InitRequestQueue
    /\ InitRunInLoop

NextSpacing == SpaceCalc \/ SpaceRecord \/ SpaceTick

SpecSpacing == InitSpacing /\ [][NextSpacing]_vars

----------------------------------------------------------------------------
(* Specification SpecSelect: batches are built job by job, then selected *)

InitSelect ==
    /\ pc = "fetch"
    /\ max_parallel_engines \in 0..MaxParallel
    /\ jobs = <<>>
    /\ parallel_jobs = <<>>
    /\ InitCooldown
    /\ InitDeduplicator
    /\ InitIdleDispatch
    /\ InitPureIdle
    /\ InitRequestQueue
    /\ InitRunInLoop


\* one more job in the response of the queue endpoint; ids are unique
SelFetchJob ==
    /\ pc = "fetch"
    /\ Len(jobs) < MaxBatch
    /\ \E e \in Engines, p \in {"immediate", "high", "normal", "low"} :
          jobs' = Append(jobs, [id |-> Len(jobs) + 1, engine |-> e, priority |-> p,
                                 prompt_text |-> <<"a">>])
    /\ UNCHANGED <<extVars, pc, max_parallel_engines, parallel_jobs, coolVars, coolHist, dedupVars, dispVars>>

SelSelect ==
    /\ pc = "fetch"
    /\ parallel_jobs' = select_jobs_for_parallel(jobs, max_parallel_engines)
    /\ pc' = "selected"
    /\ UNCHANGED <<extVars, max_parallel_engines, jobs, coolVars, coolHist, dedupVars, dispVars>>

\* the selection of the sequential mode, which does not read
\* max_parallel_engines: explored for the value 1, the configuration the
\* sequential mode stands for
SelSelectBest ==
    /\ pc = "fetch"
    /\ max_parallel_engines = 1
    /\ ret' = <<select_best_job(jobs)>>
    /\ pc' = "selected_best"
    /\ UNCHANGED <<args, paceVars, runVars, sessVars, auxVars, max_parallel_engines, jobs,
                   parallel_jobs, coolVars, coolHist, dedupVars, dispVars>>

NextSelect == SelFetchJob \/ SelSelect \/ SelSelectBest

SpecSelect == InitSelect /\ [][NextSelect]_vars

----------------------------------------------------------------------------
(* Parallel dispatch: run, process_jobs_parallel, claim_jobs, complete_job *)

\* WorkerConfig.max_consecutive_errors
MaxConsecutiveErrors == 5

\* WorkerConfig.stealth_mode
StealthMode == TRUE

\* states of an execution unit whose future is done: a returned result
\* (success, failure, skipped as duplicate) or an exception
FinishedStates == {"ok", "fail", "skipped", "raised"}

\* states of an execution unit that has been submitted and has not returned
InFlightStates == {"submitted", "running"}

Ids(js) == {js[i].id : i \in 1..Len(js)}

JobOf(js, id) == js[CHOOSE i \in 1..Len(js) : js[i].id = id]

Inc(d, key) == [d EXCEPT ![key] = @ + 1]

\* the counter is not reset at the threshold
AfterLoopError_NoReset(errors) == errors + 1

\* the except branch of the main loop: count the error, back off and reset
\* at the threshold
AfterLoopError(errors) ==
    IF errors + 1 >= MaxConsecutiveErrors THEN 0 ELSE errors + 1

\* the batches the queue endpoint may answer with: up to MaxFetch new jobs
RECURSIVE Batches(_, _)
Batches(first, n) ==
    IF n = 0 THEN {<<>>}
    ELSE {<<[id |-> first, engine |-> e, priority |-> p, prompt_text |-> t]>> \o rest :
             e \in DispEngines, p \in {"normal"}, t \in {<<"a">>},
             rest \in Batches(first + 1, n - 1)}

\* max_workers of the executor that process_jobs_parallel creates
MaxWorkers(claimed) ==
    IF use_multiprocessing THEN Min(Len(claimed), max_parallel_engines)
    ELSE max_parallel_engines

\* leaving the "with ... as executor" block as shutdown(wait=False) would:
\* it returns at once, whatever the units are doing
ExecutorShutdownDone_NoWait == TRUE

\* leaving the "with ... as executor" block calls shutdown(wait=True): it
\* returns when every submitted unit has finished
ExecutorShutdownDone ==
    \A id \in Ids(claimed_jobs) : unit[id].state \in FinishedStates

\* the answers of the Job Source to claim(job_ids): status 200 with the ids
\* it accepted, any subset of the ids asked for
SourceClaim(ids) == SUBSET ids

\* fetch_jobs_from_queue returns a batch; select_jobs_for_parallel picks the
\* jobs to claim.  A new cycle begins: the locals of the previous call of
\* process_jobs_parallel and the per-cycle records are gone.
DispFetch ==
    /\ pc = "loop"
    /\ running
    /\ \E n \in 1..MaxFetch :
          /\ next_id + n <= MaxJobs
          /\ \E batch \in Batches(next_id + 1, n) :
                /\ jobs' = batch
                /\ parallel_jobs' = select_jobs_for_parallel(batch, max_parallel_engines)
          /\ next_id' = next_id + n
    /\ pc' = "claim"
    /\ claimed_jobs' = <<>>
    /\ processed' = 0
    /\ accepted' = {}
    /\ unit' = [id \in {i \in DOMAIN unit : unit[i].state \in InFlightStates} |-> unit[id]]
    /\ ingest_calls' = EmptyDict
    /\ patch_calls' = EmptyDict
    /\ outcome' = EmptyDict
    /\ UNCHANGED <<extVars, max_parallel_engines, coolVars, coolHist, dedupVars,
                   use_multiprocessing, pending, finished_batch,
                   consecutive_errors, stats, timed_out, prompts_run>>

\* fetch_jobs_from_queue returns no job (empty queue, connection error or
\* other exception): the loop sleeps poll_interval and resets its counter
DispFetchNone ==
    /\ pc = "loop"
    /\ running
    /\ consecutive_errors' = 0
    /\ UNCHANGED <<extVars, pc, max_parallel_engines, jobs, parallel_jobs, coolVars, coolHist,
                   dedupVars, use_multiprocessing, next_id, claimed_jobs, accepted,
                   unit, pending, finished_batch, processed, stats, ingest_calls,
                   patch_calls, outcome, timed_out, prompts_run>>

\* claim_jobs answered with a status other than 200, or raised: nothing is
\* claimed, process_jobs_parallel returns 0 and the loop sleeps
DispClaimRefused ==
    /\ pc = "claim"
    /\ claimed_jobs' = <<>>
    /\ pc' = "loop"
    /\ UNCHANGED <<extVars, max_parallel_engines, jobs, parallel_jobs, coolVars, coolHist,
                   dedupVars, use_multiprocessing, next_id, accepted, unit, pending,
                   finished_batch, processed, consecutive_errors, stats,
                   ingest_calls, patch_calls, outcome, timed_out, prompts_run>>

\* claim_jobs answered 200: the Job Source has accepted some of the ids and
\* claim_jobs returns every job it asked for.  The executor is created and
\* one unit per claimed job is submitted; an executor with max_workers <= 0
\* raises ValueError, which reaches the except branch of the main loop.
DispClaim ==
    /\ pc = "claim"
    /\ accepted' \in SourceClaim(Ids(parallel_jobs))
    /\ claimed_jobs' = parallel_jobs
    /\ jobs_claimed' = jobs_claimed + Len(parallel_jobs)
    /\ ingest_calls' = [id \in Ids(parallel_jobs) |-> 0]
    /\ patch_calls' = [id \in Ids(parallel_jobs) |-> <<>>]
    /\ outcome' = [id \in Ids(parallel_jobs) |-> <<>>]
    /\ IF MaxWorkers(parallel_jobs) <= 0
       THEN /\ consecutive_errors' = AfterLoopError(consecutive_errors)
            /\ pc' = "loop"
            /\ UNCHANGED <<unit, pending, finished_batch, processed>>
       ELSE /\ unit' = [id \in DOMAIN unit \cup Ids(parallel_jobs) |->
                           IF id \in Ids(parallel_jobs)
                           THEN [engine |-> JobOf(parallel_jobs, id).engine,
                                 prompt_text |-> JobOf(parallel_jobs, id).prompt_text,
                                 state |-> "submitted"]
                           ELSE unit[id]]
            /\ pending' = Ids(parallel_jobs)
            /\ finished_batch' = {}
            /\ processed' = 0
            /\ pc' = "collect"
            /\ UNCHANGED consecutive_errors
    /\ UNCHANGED <<pureVars, paceVars, runVars, sessVars, wait, hb_pc, fetch_failures,
                   max_parallel_engines, jobs, parallel_jobs, coolVars, coolHist,
                   dedupVars, use_multiprocessing, next_id, stats, timed_out, prompts_run>>

\* The history of the deduplicator a unit asks: with threads that of the
\* worker's deduplicator; with processes that of the one process_job_worker
\* creates in the new process, which is empty.
\*
\* a unit begins its job (process_job with threads, process_job_worker with
\* processes): it asks the deduplicator and, unless the prompt is a
\* duplicate, goes through pre_request_routine of its anti-detection
\* system, the worker's own one with threads, and on to the adapter
UnitStart ==
    \E id \in DOMAIN unit :
        /\ unit[id].state = "submitted"
        /\ LET job == unit[id]
               r   == CheckAndRecord(IF use_multiprocessing THEN <<>> ELSE recent_prompts,
                                     job.prompt_text, job.engine, now)
               dup == StealthMode /\ r.result.is_duplicate
           IN  /\ unit' = [unit EXCEPT ![id].state = IF dup THEN "skipped" ELSE "running"]
               /\ IF StealthMode /\ ~use_multiprocessing
                  THEN /\ recent_prompts' = r.recent
                       /\ dedup_result' = r.result
                       /\ dedup_call' = [prompt |-> job.prompt_text, engine |-> job.engine,
                                         n |-> dedup_call.n + 1]
                  ELSE UNCHANGED dedupVars
               /\ prompts_run' = IF dup THEN prompts_run
                                 ELSE prompts_run \cup
                                          {<<job.engine, NormalizePrompt(job.prompt_text)>>}
               /\ jobs_run' = IF dup THEN jobs_run ELSE jobs_run + 1
               /\ prompts_this_session' =
                      IF dup \/ use_multiprocessing THEN prompts_this_session
                      ELSE prompts_this_session + 1
        /\ UNCHANGED <<pureVars, paceVars, runVars, selVars, coolVars, coolHist, use_multiprocessing, next_id,
                       claimed_jobs, accepted, pending, finished_batch, processed,
                       consecutive_errors, stats, ingest_calls, patch_calls,
                       outcome, timed_out, break_taken, auxVars>>

\* a unit returns its result dict, with success True or False, after
\* post_request_routine has recorded the request in the RequestQueue of
\* its anti-detection system: the worker's own one with threads, one that
\* ends with the process with processes
UnitReturn ==
    \E id \in DOMAIN unit, success \in BOOLEAN :
        /\ unit[id].state = "running"
        /\ unit' = [unit EXCEPT ![id].state = IF success THEN "ok" ELSE "fail"]
        /\ IF StealthMode /\ ~use_multiprocessing
           THEN /\ request_history' =
                       DequeAppend(request_history, now, RequestHistoryMaxLen)
                /\ queue_engine_last_request' =
                       Put(queue_engine_last_request, unit[id].engine, now)
                /\ current_backoff_level' = BackoffAfter(current_backoff_level, success)
           ELSE UNCHANGED <<request_history, queue_engine_last_request,
                            current_backoff_level>>
        /\ UNCHANGED <<pureVars, pace_call, delay, runVars, sessVars, auxVars, selVars, coolVars, coolHist, dedupVars, use_multiprocessing,
                       next_id, claimed_jobs, accepted, pending, finished_batch,
                       processed, consecutive_errors, stats, ingest_calls,
                       patch_calls, outcome, timed_out, prompts_run>>

\* a unit ends with an exception.  A worker process that dies breaks the
\* process pool: every future that is not done gets BrokenProcessPool.  A
\* thread that raises fails its own future only.
UnitRaise ==
    \E id \in DOMAIN unit :
        /\ unit[id].state \in InFlightStates
        /\ unit' = [i \in DOMAIN unit |->
                       IF /\ unit[i].state \in InFlightStates
                          /\ (i = id \/ use_multiprocessing)
                       THEN [unit[i] EXCEPT !.state = "raised"]
                       ELSE unit[i]]
        /\ UNCHANGED <<extVars, selVars, coolVars, coolHist, dedupVars, use_multiprocessing,
                       next_id, claimed_jobs, accepted, pending, finished_batch,
                       processed, consecutive_errors, stats, ingest_calls,
                       patch_calls, outcome, timed_out, prompts_run>>

\* as_completed wakes up and takes the futures that have finished
AsCompletedWake ==
    /\ pc = "collect"
    /\ finished_batch = {}
    /\ \E id \in pending : unit[id].state \in FinishedStates
    /\ finished_batch' = {id \in pending : unit[id].state \in FinishedStates}
    /\ pending' = pending \ finished_batch'
    /\ UNCHANGED <<extVars, selVars, coolVars, coolHist, dedupVars, use_multiprocessing,
                   next_id, claimed_jobs, accepted, unit, processed,
                   consecutive_errors, stats, ingest_calls, patch_calls, outcome,
                   timed_out, prompts_run>>

\* complete_job(job, result, success) when the completion endpoint answers
\* http ("2xx", "non2xx") or the call raises ("raise"): one completion
\* call, then one patch_status call
complete_job(id, success, http) ==
    /\ ingest_calls' = Put(ingest_calls, id, ingest_calls[id] + 1)
    /\ patch_calls' = Put(patch_calls, id,
                          Append(patch_calls[id], IF http = "raise" THEN FALSE ELSE success))

\* the "continue" is missing: the skipped result falls through to the
\* report, which the Job Source answers with a 2xx
HandleSkipped_Reports(id, engine) ==
    /\ record_engine_request(engine, FALSE)
    /\ complete_job(id, FALSE, "2xx")
    /\ stats' = Inc(Inc(stats, "jobs_skipped"), "jobs_processed")
    /\ processed' = processed + 1
    /\ outcome' = Put(outcome, id, Append(outcome[id], "skipped"))

\* a result with result["skipped"]: the request is recorded with the
\* result's success (False), jobs_skipped is counted and "continue" leaves
\* the body before the report
HandleSkipped(id, engine) ==
    /\ record_engine_request(engine, FALSE)
    /\ stats' = Inc(stats, "jobs_skipped")
    /\ outcome' = Put(outcome, id, Append(outcome[id], "skipped"))
    /\ UNCHANGED <<processed, ingest_calls, patch_calls>>

\* every result is recorded as a success of its engine
HandleResult_RecordsSuccess(id, engine, success, http) ==
    /\ record_engine_request(engine, TRUE)
    /\ complete_job(id, success, http)
    /\ IF http = "2xx"
       THEN /\ stats' = Inc(stats, "jobs_processed")
            /\ processed' = processed + 1
            /\ outcome' = Put(outcome, id, Append(outcome[id], "completed"))
       ELSE /\ stats' = Inc(stats, "jobs_failed")
            /\ processed' = processed
            /\ outcome' = Put(outcome, id, Append(outcome[id], "failed"))

\* a result that is not skipped, with result["success"] = success: the
\* request is recorded, complete_job reports it and the counters follow
\* what complete_job returned
HandleResult(id, engine, success, http) ==
    /\ record_engine_request(engine, success)
    /\ complete_job(id, success, http)
    /\ IF http = "2xx"
       THEN /\ stats' = Inc(stats, "jobs_processed")
            /\ processed' = processed + 1
            /\ outcome' = Put(outcome, id, Append(outcome[id], "completed"))
       ELSE /\ stats' = Inc(stats, "jobs_failed")
            /\ processed' = processed
            /\ outcome' = Put(outcome, id, Append(outcome[id], "failed"))

\* the body of the "for future in as_completed(...)" loop for one future
DispHandle ==
    /\ pc = "collect"
    /\ \E id \in finished_batch :
        LET job   == JobOf(claimed_jobs, id)
            state == unit[id].state
        IN  /\ finished_batch' = finished_batch \ {id}
            /\ CASE state \in {"ok", "fail"} ->
                       \E http \in {"2xx", "non2xx", "raise"} :
                           HandleResult(id, job.engine, state = "ok", http)
                 [] state = "skipped" -> HandleSkipped(id, job.engine)
                 [] state = "raised" ->
                       /\ stats' = Inc(stats, "jobs_failed")
                       /\ record_engine_request(job.engine, FALSE)
                       /\ patch_calls' = Put(patch_calls, id, Append(patch_calls[id], FALSE))
                       /\ outcome' = Put(outcome, id, Append(outcome[id], "failed"))
                       /\ UNCHANGED <<processed, ingest_calls>>
    /\ UNCHANGED <<extVars, selVars, now, dedupVars, use_multiprocessing, next_id,
                   claimed_jobs, accepted, unit, pending, consecutive_errors,
                   timed_out, prompts_run>>

\* run sleeps after process_jobs_parallel has returned: 2 s when no job was
\* processed, else random.uniform(1, 3), of which the longest is taken.
\*
\* every future has been yielded: the executor is shut down, the batch is
\* counted, run looks at the number of processed jobs and sleeps
DispBatchDone ==
    /\ pc = "collect"
    /\ finished_batch = {}
    /\ pending = {}
    /\ stats' = Inc(stats, "parallel_batches")
    /\ consecutive_errors' = IF processed = 0 THEN consecutive_errors ELSE 0
    /\ now' = now + (IF processed = 0 THEN 2 ELSE 3)
    /\ pc' = "loop"
    /\ UNCHANGED <<extVars, max_parallel_engines, jobs, parallel_jobs,
                   engine_last_request, engine_error_count, coolHist,
                   dedupVars, use_multiprocessing, next_id, claimed_jobs, accepted,
                   unit, pending, finished_batch, processed, ingest_calls,
                   patch_calls, outcome, timed_out, prompts_run>>

\* 300 s after as_completed was called some future has not been yielded:
\* the iterator raises TimeoutError in the for statement, outside the try
\* block of the loop body
DispTimeout ==
    /\ pc = "collect"
    /\ finished_batch = {}
    /\ pending # {}
    /\ timed_out' = timed_out \cup
           {[id |-> id, engine |-> unit[id].engine] :
               id \in {i \in pending : unit[i].state \in InFlightStates}}
    /\ pc' = "shutdown"
    /\ UNCHANGED <<extVars, max_parallel_engines, jobs, parallel_jobs, coolVars, coolHist,
                   dedupVars, use_multiprocessing, next_id, claimed_jobs, accepted,
                   unit, pending, finished_batch, processed, consecutive_errors,
                   stats, ingest_calls, patch_calls, outcome, prompts_run>>

\* the exception leaves the with block once the executor has shut down and
\* is caught by the except branch of the main loop
DispExecutorExit ==
    /\ pc = "shutdown"
    /\ ExecutorShutdownDone
    /\ pending' = {}
    /\ consecutive_errors' = AfterLoopError(consecutive_errors)
    /\ pc' = "loop"
    /\ UNCHANGED <<extVars, max_parallel_engines, jobs, parallel_jobs, coolVars, coolHist,
                   dedupVars, use_multiprocessing, next_id, claimed_jobs, accepted,
                   unit, finished_batch, processed, stats, ingest_calls,
                   patch_calls, outcome, timed_out, prompts_run>>

\* SIGINT or SIGTERM reaches the main thread while the loop runs, at the
\* while test or between two statements of the loop body
DispSignal ==
    /\ running
    /\ running' = FALSE
    /\ offline_calls' = offline_calls + 1
    /\ UNCHANGED <<selVars, coolVars, coolHist, dedupVars, dispVars, pureVars, paceVars,
                   sessVars, auxVars, run_pc, parallel_mode, cycles, attempt,
                   exit_status, heartbeat, last_sleep, error_run>>

----------------------------------------------------------------------------
(* Specification SpecDispatch: the main loop in parallel mode with its     *)
(* execution units                                                         *)

InitDispatch ==
    /\ pc = "loop"
    /\ max_parallel_engines \in {0, 1, 2}  \* none, one, one per engine
    /\ jobs = <<>>
    /\ parallel_jobs = <<>>
    /\ InitCooldown
    /\ InitDeduplicator
    /\ use_multiprocessing \in BOOLEAN
    /\ InitScheduler
    /\ InitPureIdle
    /\ InitRequestQueue
    /\ InitRunInLoop


NextDispatch ==
    \/ DispFetch
    \/ DispFetchNone
    \/ DispClaimRefused
    \/ DispClaim
    \/ UnitStart
    \/ UnitReturn
    \/ UnitRaise
    \/ AsCompletedWake
    \/ DispHandle
    \/ DispBatchDone
    \/ DispTimeout
    \/ DispExecutorExit

SpecDispatch == InitDispatch /\ [][NextDispatch]_vars

----------------------------------------------------------------------------
(* Specification SpecCancel: the main loop in parallel mode when a         *)
(* shutdown signal can arrive                                              *)

NextCancel ==
    \/ DispFetch
    \/ DispFetchNone
    \/ DispClaimRefused
    \/ DispClaim
    \/ UnitStart
    \/ UnitReturn
    \/ UnitRaise
    \/ AsCompletedWake
    \/ DispHandle
    \/ DispBatchDone
    \/ DispTimeout
    \/ DispExecutorExit
    \/ DispSignal

SpecCancel == InitDispatch /\ [][NextCancel]_vars

----------------------------------------------------------------------------
(* run: start-up, main loop, shutdown signals, heartbeat thread *)

\* what an HTTP call of the heartbeat may do
HeartbeatOutcomes == {"200", "non200", "exception"}

\* the exceptions an iteration of the main loop may end with: the executor
\* constructor, as_completed, the browser, anything else
LoopErrors == {"ValueError", "TimeoutError", "ConnectionError", "Exception"}

\* a _send_heartbeat without its try/except: the exception of the HTTP
\* call leaves the function
HeartbeatPropagates_Uncaught(http) == http = "exception"

\* _send_heartbeat: does the failure of the HTTP call leave the function?
\* "except Exception" catches it and a status other than 200 is logged
HeartbeatPropagates(http) == FALSE

\* an except branch that names ConnectionError only
LoopCatches_ConnectionOnly(err) == err = "ConnectionError"

\* the except branch of the main loop: "except Exception as e"
LoopCatches(err) == err \in LoopErrors

\* one more heartbeat, by the caller who
HeartbeatAfter(who, http) ==
    [alive  |-> IF who = "thread" THEN ~HeartbeatPropagates(http) ELSE heartbeat.alive,
     calls  |-> heartbeat.calls + 1,
     failed |-> heartbeat.failed + (IF http = "200" THEN 0 ELSE 1),
     by     |-> who]

\* run leaves through the finally block: the heartbeat thread is stopped
\* and the browser disconnected
RunCleanup(status) ==
    /\ heartbeat' = [heartbeat EXCEPT !.alive = FALSE]
    /\ exit_status' = status
    /\ run_pc' = "returned"

\* check_chrome_debugging, up to three attempts
RunChromeCheck ==
    /\ run_pc = "chrome_check"
    /\ \E ok \in BOOLEAN :
          IF ok THEN /\ run_pc' = "connect"
                     /\ attempt' = 0
                     /\ UNCHANGED exit_status
          ELSE IF attempt < 2
               THEN /\ attempt' = attempt + 1
                    /\ UNCHANGED <<run_pc, exit_status>>
               ELSE /\ exit_status' = "1"
                    /\ run_pc' = "returned"
                    /\ UNCHANGED attempt
    /\ UNCHANGED <<selVars, coolVars, coolHist, dedupVars, dispVars, pureVars, paceVars, sessVars, auxVars,
                   parallel_mode, running, cycles, offline_calls, heartbeat,
                   last_sleep, error_run>>

\* BrowserConnection().connect(), up to three attempts on ConnectionError;
\* any other exception ends run at once
RunConnect ==
    /\ run_pc = "connect"
    /\ \E res \in {"ok", "ConnectionError", "Exception"} :
          CASE res = "ok" ->
                   /\ run_pc' = "register"
                   /\ UNCHANGED <<attempt, exit_status>>
            [] res = "ConnectionError" /\ attempt < 2 ->
                   /\ attempt' = attempt + 1
                   /\ UNCHANGED <<run_pc, exit_status>>
            [] OTHER ->
                   /\ exit_status' = "1"
                   /\ run_pc' = "returned"
                   /\ UNCHANGED attempt
    /\ UNCHANGED <<selVars, coolVars, coolHist, dedupVars, dispVars, pureVars, paceVars, sessVars, auxVars,
                   parallel_mode, running, cycles, offline_calls, heartbeat,
                   last_sleep, error_run>>

\* the registration heartbeat, sent by run itself before the try block, and
\* the start of the heartbeat thread
RunRegister ==
    /\ run_pc = "register"
    /\ \E http \in HeartbeatOutcomes :
          IF HeartbeatPropagates(http)
          THEN /\ heartbeat' = HeartbeatAfter("run", http)
               /\ exit_status' = "exception"
               /\ run_pc' = "returned"
          ELSE /\ heartbeat' = [HeartbeatAfter("run", http) EXCEPT !.alive = TRUE]
               /\ run_pc' = "loop"
               /\ UNCHANGED exit_status
    /\ UNCHANGED <<selVars, coolVars, coolHist, dedupVars, dispVars, pureVars, paceVars, sessVars, auxVars,
                   parallel_mode, running, cycles, attempt, offline_calls,
                   last_sleep, error_run>>

\* an iteration in which fetch_jobs_from_queue returned no job
RunNoJobs ==
    /\ run_pc = "loop"
    /\ running
    /\ cycles < MaxCycles
    /\ cycles' = cycles + 1
    /\ consecutive_errors' = 0
    /\ last_sleep' = "poll_interval"
    /\ error_run' = [len |-> 0, base |-> 0]
    /\ UNCHANGED <<selVars, coolVars, coolHist, dedupVars, dispRest, pureVars, paceVars, sessVars, auxVars,
                   run_pc, parallel_mode, running, attempt, exit_status,
                   offline_calls, heartbeat>>

\* an iteration in which process_jobs_parallel returned the number of jobs
\* it processed
RunParallelCycle ==
    /\ run_pc = "loop"
    /\ running
    /\ parallel_mode
    /\ cycles < MaxCycles
    /\ cycles' = cycles + 1
    /\ \E n \in 0..1 :
          IF n = 0 THEN /\ last_sleep' = "2"
                        /\ UNCHANGED consecutive_errors
          ELSE /\ last_sleep' = "uniform(1, 3)"
               /\ consecutive_errors' = 0
    /\ error_run' = [len |-> 0, base |-> 0]
    /\ UNCHANGED <<selVars, coolVars, coolHist, dedupVars, dispRest, pureVars, paceVars, sessVars, auxVars,
                   run_pc, parallel_mode, running, attempt, exit_status,
                   offline_calls, heartbeat>>

\* an iteration of the sequential mode that did not raise: no job, claim
\* refused, a skipped result, a completion reported or not
RunSequentialCycle ==
    /\ run_pc = "loop"
    /\ running
    /\ ~parallel_mode
    /\ cycles < MaxCycles
    /\ cycles' = cycles + 1
    /\ \E res \in {"no_job", "not_claimed", "skipped", "reported", "not_reported"} :
          CASE res = "no_job" ->
                   /\ last_sleep' = "2"
                   /\ UNCHANGED <<consecutive_errors, stats>>
            [] res = "not_claimed" ->
                   /\ last_sleep' = "none"
                   /\ UNCHANGED <<consecutive_errors, stats>>
            [] res = "skipped" ->
                   /\ stats' = Inc(stats, "jobs_skipped")
                   /\ last_sleep' = "none"
                   /\ UNCHANGED consecutive_errors
            [] res = "reported" ->
                   /\ stats' = Inc(stats, "jobs_processed")
                   /\ consecutive_errors' = 0
                   /\ last_sleep' = "uniform(0.5, 1.5)"
            [] res = "not_reported" ->
                   /\ stats' = Inc(stats, "jobs_failed")
                   /\ consecutive_errors' = consecutive_errors + 1
                   /\ last_sleep' = "uniform(0.5, 1.5)"
    /\ error_run' = [len |-> 0, base |-> 0]
    /\ UNCHANGED <<selVars, coolVars, coolHist, dedupVars, pureVars, paceVars, sessVars, auxVars,
                   use_multiprocessing, next_id, claimed_jobs, accepted, unit,
                   pending, finished_batch, processed, ingest_calls, patch_calls,
                   outcome, timed_out, prompts_run,
                   run_pc, parallel_mode, running, attempt, exit_status,
                   offline_calls, heartbeat>>

\* an iteration that ended with an exception: the except branch of the
\* main loop counts it and sleeps; an exception it does not catch leaves
\* run through the finally block
RunLoopError ==
    /\ run_pc = "loop"
    /\ running
    /\ cycles < MaxCycles
    /\ cycles' = cycles + 1
    /\ \E err \in LoopErrors :
          IF LoopCatches(err)
          THEN /\ consecutive_errors' = AfterLoopError(consecutive_errors)
               /\ last_sleep' = IF consecutive_errors + 1 >= MaxConsecutiveErrors
                                THEN "error_backoff_seconds" ELSE "5"
               /\ error_run' = [len  |-> error_run.len + 1,
                                base |-> IF error_run.len = 0 THEN consecutive_errors
                                         ELSE error_run.base]
               /\ UNCHANGED <<run_pc, exit_status, heartbeat>>
          ELSE /\ RunCleanup("exception")
               /\ UNCHANGED <<consecutive_errors, last_sleep, error_run>>
    /\ UNCHANGED <<selVars, coolVars, coolHist, dedupVars, dispRest, pureVars, paceVars, sessVars, auxVars,
                   parallel_mode, running, attempt, offline_calls>>

\* "while self.running" finds the flag cleared: finally block, return 0
RunLoopExit ==
    /\ run_pc = "loop"
    /\ ~running
    /\ RunCleanup("0")
    /\ UNCHANGED <<selVars, coolVars, coolHist, dedupVars, dispVars, pureVars, paceVars, sessVars, auxVars,
                   parallel_mode, running, cycles, attempt, offline_calls,
                   last_sleep, error_run>>

\* _signal_handler, on SIGINT or SIGTERM while run has not returned: the
\* flag is cleared and _send_offline sends the deregistration call
RunSignal ==
    /\ run_pc # "returned"
    /\ offline_calls < MaxSignals
    /\ running' = FALSE
    /\ offline_calls' = offline_calls + 1
    /\ UNCHANGED <<selVars, coolVars, coolHist, dedupVars, dispVars, pureVars, paceVars, sessVars, auxVars,
                   run_pc, parallel_mode, cycles, attempt, exit_status, heartbeat,
                   last_sleep, error_run>>

\* one turn of the loop of the heartbeat thread
HeartbeatSend ==
    /\ heartbeat.alive
    /\ running
    /\ heartbeat.calls <= MaxHeartbeats
    /\ \E http \in HeartbeatOutcomes : heartbeat' = HeartbeatAfter("thread", http)
    /\ UNCHANGED <<selVars, coolVars, coolHist, dedupVars, dispVars, pureVars, paceVars, sessVars, auxVars,
                   run_pc, parallel_mode, running, cycles, attempt, exit_status,
                   offline_calls, last_sleep, error_run>>

\* the heartbeat thread finds the running flag cleared and ends
HeartbeatEnd ==
    /\ heartbeat.alive
    /\ ~running
    /\ heartbeat' = [heartbeat EXCEPT !.alive = FALSE]
    /\ UNCHANGED <<selVars, coolVars, coolHist, dedupVars, dispVars, pureVars, paceVars, sessVars, auxVars,
                   run_pc, parallel_mode, running, cycles, attempt, exit_status,
                   offline_calls, last_sleep, error_run>>

\* an iteration in which fetch_jobs_from_queue got no batch from the Job
\* Source (no connection, another exception, or a status other than 200
\* from the queue endpoint and from the legacy endpoint) and returned []:
\* run treats it as an iteration with no pending job
RunFetchFailed ==
    /\ run_pc = "loop"
    /\ running
    /\ cycles < MaxCycles
    /\ cycles' = cycles + 1
    /\ fetch_failures' = fetch_failures + 1
    /\ consecutive_errors' = 0
    /\ last_sleep' = "poll_interval"
    /\ error_run' = [len |-> 0, base |-> 0]
    /\ UNCHANGED <<selVars, coolVars, coolHist, dedupVars, dispRest, pureVars, paceVars, sessVars,
                   wait, hb_pc, jobs_claimed, run_pc, parallel_mode, running, attempt,
                   exit_status, offline_calls, heartbeat>>

----------------------------------------------------------------------------
(* Specification SpecRun: run() from its first line to its return *)

InitRun ==
    /\ InitIdleSelect
    /\ InitCooldown
    /\ InitDeduplicator
    /\ InitIdleDispatch
    /\ InitPureIdle
    /\ InitRequestQueue
    /\ run_pc = "chrome_check"
    /\ parallel_mode \in BOOLEAN
    /\ running = TRUE
    /\ cycles = 0
    /\ attempt = 0
    /\ exit_status = "none"
    /\ offline_calls = 0
    /\ heartbeat = [alive |-> FALSE, calls |-> 0, failed |-> 0, by |-> "none"]
    /\ last_sleep = "none"
    /\ error_run = [len |-> 0, base |-> 0]
    /\ prompts_this_session = 0
    /\ jobs_run = 0
    /\ break_taken = "none"
    /\ wait = [state |-> "idle", remaining |-> 0]
    /\ hb_pc = "test"
    /\ fetch_failures = 0
    /\ jobs_claimed = 0

NextRun ==
    \/ RunChromeCheck
    \/ RunConnect
    \/ RunRegister
    \/ RunNoJobs
    \/ RunParallelCycle
    \/ RunSequentialCycle
    \/ RunLoopError
    \/ RunLoopExit
    \/ RunSignal
    \/ HeartbeatSend
    \/ HeartbeatEnd

SpecRun == InitRun /\ [][NextRun]_vars

----------------------------------------------------------------------------
(* Specification SpecLoop: the iterations of the main loop alone, in       *)
(* either mode, with the fetches that fail told apart from the fetches     *)
(* that find the queue empty                                               *)

InitLoop ==
    /\ InitIdleSelect
    /\ InitCooldown
    /\ InitDeduplicator
    /\ InitIdleDispatch
    /\ InitPureIdle
    /\ InitRequestQueue
    /\ run_pc = "loop"
    /\ parallel_mode \in BOOLEAN
    /\ running = TRUE
    /\ cycles = 0
    /\ attempt = 0
    /\ exit_status = "none"
    /\ offline_calls = 0
    /\ heartbeat = [alive |-> TRUE, calls |-> 1, failed |-> 0, by |-> "run"]
    /\ last_sleep = "none"
    /\ error_run = [len |-> 0, base |-> 0]
    /\ prompts_this_session = 0
    /\ jobs_run = 0
    /\ break_taken = "none"
    /\ wait = [state |-> "idle", remaining |-> 0]
    /\ hb_pc = "test"
    /\ fetch_failures = 0
    /\ jobs_claimed = 0

NextLoop ==
    \/ RunFetchFailed
    \/ RunNoJobs
    \/ RunParallelCycle
    \/ RunSequentialCycle
    \/ RunLoopError

SpecLoop == InitLoop /\ [][NextLoop]_vars

----------------------------------------------------------------------------
(* Specification SpecSession: the iterations of the main loop that fetched *)
(* jobs, with the session break they start with and the jobs they run      *)

\* AntiDetectionManager.should_take_break: the distribution the break is
\* drawn from, "none" for None; late_draw stands for a session older than
\* 1800 s together with random.random() < 0.1
should_take_break(prompts, late_draw) ==
    IF prompts > 0 /\ prompts % 10 = 0 THEN "uniform(60, 120)"
    ELSE IF late_draw THEN "uniform(30, 90)"
    ELSE "none"

\* the break of an iteration of the main loop, taken after a fetch that
\* returned jobs and before the jobs are dispatched
SessionBreak(late_draw) ==
    IF StealthMode THEN should_take_break(prompts_this_session, late_draw)
    ELSE "none"

\* an iteration of the parallel mode: the break, then process_jobs_parallel
\* runs n jobs.  pre_request_routine counts a prompt in the anti-detection
\* system of the unit that runs the job: the worker's own one in
\* process_job, a new one in process_job_worker.
SessionParallelCycle ==
    /\ parallel_mode
    /\ cycles < MaxSessionCycles
    /\ cycles' = cycles + 1
    /\ \E late_draw \in BOOLEAN : break_taken' = SessionBreak(late_draw)
    /\ \E n \in 0..2 :
          /\ jobs_run' = jobs_run + n
          /\ prompts_this_session' =
                 IF use_multiprocessing THEN prompts_this_session
                 ELSE prompts_this_session + n
    /\ UNCHANGED <<selVars, coolVars, coolHist, dedupVars, dispVars, pureVars, paceVars,
                   run_pc, parallel_mode, running, attempt, exit_status,
                   offline_calls, heartbeat, last_sleep, error_run, auxVars>>

\* an iteration of the sequential mode: the break, then process_job runs
\* the selected job, if one is ready and claimed
SessionSequentialCycle ==
    /\ ~parallel_mode
    /\ cycles < MaxSessionCycles
    /\ cycles' = cycles + 1
    /\ \E late_draw \in BOOLEAN : break_taken' = SessionBreak(late_draw)
    /\ \E n \in 0..1 :
          /\ jobs_run' = jobs_run + n
          /\ prompts_this_session' = prompts_this_session + n
    /\ UNCHANGED <<selVars, coolVars, coolHist, dedupVars, dispVars, pureVars, paceVars,
                   run_pc, parallel_mode, running, attempt, exit_status,
                   offline_calls, heartbeat, last_sleep, error_run, auxVars>>

InitSession ==
    /\ InitIdleSelect
    /\ InitCooldown
    /\ InitDeduplicator
    /\ InitPureIdle
    /\ InitRequestQueue
    /\ InitScheduler
    /\ use_multiprocessing \in BOOLEAN
    /\ run_pc = "loop"
    /\ parallel_mode \in BOOLEAN
    /\ running = TRUE
    /\ cycles = 0
    /\ attempt = 0
    /\ exit_status = "none"
    /\ offline_calls = 0
    /\ heartbeat = [alive |-> TRUE, calls |-> 1, failed |-> 0, by |-> "run"]
    /\ last_sleep = "none"
    /\ error_run = [len |-> 0, base |-> 0]
    /\ prompts_this_session = 0
    /\ jobs_run = 0
    /\ break_taken = "none"
    /\ wait = [state |-> "idle", remaining |-> 0]
    /\ hb_pc = "test"
    /\ fetch_failures = 0
    /\ jobs_claimed = 0

NextSession ==
    \/ SessionParallelCycle
    \/ SessionSequentialCycle

SpecSession == InitSession /\ [][NextSession]_vars

----------------------------------------------------------------------------
(* Specification SpecShutdown: the main thread sleeps in wait_for_slot for *)
(* a job of the sequential mode while the heartbeat thread turns in its    *)
(* loop and shutdown signals arrive.  A turn of the heartbeat loop is      *)
(* taken in two steps, the while test and the call, between which the      *)
(* signal handler can run.                                                 *)

\* wait_for_slot up to the while loop: the delay is computed and becomes
\* the local variable remaining
WaitStart ==
    /\ run_pc = "loop"
    /\ running
    /\ wait.state = "idle"
    /\ \E d \in DelayDraws :
          LET r == calculate_delay("chatgpt", now, d).delay
          IN  wait' = [state |-> IF r > 0 THEN "sleeping" ELSE "returned",
                       remaining |-> r]
    /\ UNCHANGED <<selVars, coolVars, coolHist, dedupVars, dispVars, pureVars, paceVars,
                   runVars, sessVars, hb_pc, fetch_failures, jobs_claimed>>

\* one turn of the while loop of wait_for_slot: time.sleep(chunk) with
\* chunk = min(remaining, random.uniform(1.0, 3.0)); a signal handler that
\* runs during the sleep returns into it
WaitChunk ==
    /\ wait.state = "sleeping"
    /\ \E u \in {1, 3} :
          LET chunk == Min(wait.remaining, Sec(u))
              left  == wait.remaining - chunk
          IN  /\ wait' = [state |-> IF left > 0 THEN "sleeping" ELSE "returned",
                          remaining |-> left]
              /\ now' = now + (chunk \div Scale)
    /\ UNCHANGED <<selVars, engine_last_request, engine_error_count, coolHist, dedupVars,
                   dispVars, pureVars, paceVars, runVars, sessVars, hb_pc, fetch_failures, jobs_claimed>>

\* the heartbeat thread at "while self.running and not
\* self._heartbeat_stop.is_set()": it goes on to _send_heartbeat or ends
HeartbeatTest ==
    /\ heartbeat.alive
    /\ hb_pc = "test"
    /\ IF running
       THEN /\ heartbeat.calls <= MaxHeartbeats
            /\ hb_pc' = "send"
            /\ UNCHANGED heartbeat
       ELSE /\ heartbeat' = [heartbeat EXCEPT !.alive = FALSE]
            /\ UNCHANGED hb_pc
    /\ UNCHANGED <<selVars, coolVars, coolHist, dedupVars, dispVars, pureVars, paceVars,
                   run_pc, parallel_mode, running, cycles, attempt, exit_status,
                   offline_calls, last_sleep, error_run, sessVars, wait, fetch_failures, jobs_claimed>>

\* the heartbeat thread in _send_heartbeat: the POST with status "active",
\* then the sleep of heartbeat_interval, back to the while test
HeartbeatPost ==
    /\ hb_pc = "send"
    /\ \E http \in HeartbeatOutcomes : heartbeat' = HeartbeatAfter("thread", http)
    /\ hb_pc' = "test"
    /\ UNCHANGED <<selVars, coolVars, coolHist, dedupVars, dispVars, pureVars, paceVars,
                   run_pc, parallel_mode, running, cycles, attempt, exit_status,
                   offline_calls, last_sleep, error_run, sessVars, wait, fetch_failures, jobs_claimed>>

InitShutdown ==
    /\ InitIdleSelect
    /\ InitCooldown
    /\ InitDeduplicator
    /\ InitIdleDispatch
    /\ InitPureIdle
    /\ InitRequestQueue
    /\ InitRunInLoop

NextShutdown ==
    \/ WaitStart
    \/ WaitChunk
    \/ RunSignal
    \/ HeartbeatTest
    \/ HeartbeatPost

SpecShutdown == InitShutdown /\ [][NextShutdown]_vars

----------------------------------------------------------------------------
(* Claims about the deduplicator (SpecDedup) *)

\* a text is in normal form: no upper-case letter, no blank at either end,
\* no two blanks in a row
IsNormalForm(t) ==
    /\ \A i \in 1..Len(t) : t[i] \notin {"A", "W", "F"}
    /\ t # <<>> => (t[1] # " " /\ t[Len(t)] # " ")
    /\ \A i \in 1..(Len(t) - 1) : ~(t[i] = " " /\ t[i + 1] = " ")

\* the history before the call holds an in-window record of the engine with
\* the normalized text of the prompt
HasExactRecord(recent, prompt, engine, t) ==
    \E i \in 1..Len(recent) :
        /\ recent[i].engine = engine
        /\ recent[i].time >= t - 3600
        /\ recent[i].normalized = NormalizePrompt(prompt)

C10_CheckStep ==
    dedup_call'.n # dedup_call.n =>
        /\ dedup_result'.is_duplicate <=>
               HasExactRecord(recent_prompts, dedup_call'.prompt,
                              dedup_call'.engine, now)
        /\ dedup_result'.is_duplicate =>
               dedup_result'.similarity_score.num = dedup_result'.similarity_score.den

C10_RecordsNormalized ==
    \A i \in 1..Len(recent_prompts) : IsNormalForm(recent_prompts[i].normalized)

\* C10: check_and_record returns is_duplicate = True, with similarity 1.0,
\* exactly when the history held a record of the same engine, not older than
\* the window, whose normalized text equals the normalized prompt; recorded
\* texts are lower-case with single blanks between words.
C10_DuplicateIffExactRecord == []C10_RecordsNormalized /\ [][C10_CheckStep]_vars

\* a prompt that differs from its normal form was found to be a duplicate
C10_Witness ==
    /\ dedup_call.n >= 2
    /\ dedup_result.is_duplicate
    /\ NormalizePrompt(dedup_call.prompt) # dedup_call.prompt

\* the record a check_and_record call is to append
C32_NewRecord ==
    [normalized |-> NormalizePrompt(dedup_call'.prompt),
     engine |-> dedup_call'.engine, time |-> now]

C32_CheckStep ==
    dedup_call'.n # dedup_call.n =>
        recent_prompts' =
            IF Len(recent_prompts) < 50 THEN Append(recent_prompts, C32_NewRecord)
            ELSE Append(Tail(recent_prompts), C32_NewRecord)

\* C32: every check_and_record call, whatever it returns, appends exactly
\* one record (normalized text, engine, now) as the newest entry of the
\* history; the history never holds more than 50 records and a call on a
\* full history drops its oldest record.
C32_OneRecordPerCheck == [](Len(recent_prompts) <= 50) /\ [][C32_CheckStep]_vars

\* a call has been served on a full history: the record that was second
\* oldest is now the oldest
C32_Witness ==
    /\ dedup_call.n = 1
    /\ Len(recent_prompts) = 50
    /\ recent_prompts[1].time = StartTime - 98
    /\ recent_prompts[50].normalized = NormalizePrompt(dedup_call.prompt)

\* the records of the engine that are not older than the window
C33_InWindow(engine) ==
    {i \in 1..Len(recent_prompts) :
        /\ recent_prompts[i].engine = engine
        /\ recent_prompts[i].time >= now - 60 * 60}

C33_CheckStep ==
    dedup_call'.n # dedup_call.n =>
        LET normalized == NormalizePrompt(dedup_call'.prompt)
            inwin == C33_InWindow(dedup_call'.engine)
            exact == \E i \in inwin : recent_prompts[i].normalized = normalized
            close == \E i \in inwin :
                        LET sim == CalculateSimilarity(recent_prompts[i].normalized,
                                                       normalized)
                        IN  sim.num * 100 > 85 * sim.den
        IN  /\ dedup_result'.is_similar <=> (~exact /\ close)
            /\ dedup_result'.is_similar => dedup_result'.recommendation = "add_delay"
            /\ ~(dedup_result'.is_duplicate /\ dedup_result'.is_similar)

\* C33: check_and_record returns is_similar = True, with the recommendation
\* "add_delay", exactly when no record of the engine in the window equals
\* the prompt and the largest Jaccard similarity to those records is above
\* 0.85; no result has both is_duplicate and is_similar.
C33_SimilarIffNoExactAndClose == [][C33_CheckStep]_vars

\* a check_and_record call for CapitalPlain that directly follows the call
\* for CapitalQuestion, for the same engine and less than a window later
C11_SecondSubmission ==
    /\ dedup_call.n >= 1
    /\ dedup_call.prompt = CapitalQuestion
    /\ dedup_call'.n = dedup_call.n + 1
    /\ dedup_call'.prompt = CapitalPlain
    /\ dedup_call'.engine = dedup_call.engine
    /\ now - recent_prompts[Len(recent_prompts)].time < WindowMinutes * 60

\* C11: when "What is the capital of France?" and then "what is the capital
\* of france" are submitted for the same engine within the window, the
\* second check returns is_duplicate = True.
C11_CapitalScenarioIsDuplicate ==
    [][C11_SecondSubmission => dedup_result'.is_duplicate]_vars

\* C12: the Jaccard similarity of two normalized prompts, empty ones
\* included, is the same in both orders and lies between 0 and 1.
C12_SimilaritySymmetric ==
    ret # <<>> =>
        LET ab == ret[1].ab
            ba == ret[1].ba
        IN  /\ ab.num * ba.den = ba.num * ab.den
            /\ ab.den > 0
            /\ 0 <= ab.num
            /\ ab.num <= ab.den

\* two prompts that share some words and not others, and an empty prompt
\* against a prompt with words, have been compared
C12_Witness ==
    /\ ret # <<>>
    /\ \/ /\ ret[1].ab.num > 0
          /\ ret[1].ab.num < ret[1].ab.den
          /\ Cardinality(Range(Split(args[1]))) # Cardinality(Range(Split(args[2])))
       \/ /\ args[1] = <<>>
          /\ args[2] # <<>>

----------------------------------------------------------------------------
(* Claims about merge_sources (SpecMerge) *)

\* what a source is recognised by: its URL, or its domain when it has no URL
SeenAs(s) ==
    IF SourceUrl(s) # <<>> THEN <<"url", SourceUrl(s)>>
    ELSE <<"domain", SourceDom(s)>>

HasKey(s) == SourceUrl(s) # <<>> \/ SourceDom(s) # <<>>

\* the positions of the additions that have a URL or a domain which no
\* existing source and no earlier addition has
NewAdditions(existing, additions) ==
    {i \in 1..Len(additions) :
        /\ HasKey(additions[i])
        /\ \A j \in 1..Len(existing) :
               HasKey(existing[j]) => SeenAs(existing[j]) # SeenAs(additions[i])
        /\ \A j \in 1..(i - 1) :
               HasKey(additions[j]) => SeenAs(additions[j]) # SeenAs(additions[i])}

\* the k-th smallest element of a set of positions
Nth(positions, k) ==
    CHOOSE i \in positions : Cardinality({j \in positions : j < i}) = k - 1

\* C20: merge_sources returns the existing list unchanged as a prefix,
\* followed, in the order of the additions, by each addition whose URL (or
\* whose domain, when it has no URL) no existing source and no earlier
\* addition has; an addition with the URL of an existing source is dropped,
\* and additions of one domain with different URLs are all kept.
C20_MergeResult ==
    ret # <<>> =>
        LET existing  == args.existing
            additions == args.additions
            merged    == ret[1]
            n         == Len(existing)
            new       == NewAdditions(existing, additions)
        IN  /\ Len(merged) = n + Cardinality(new)
            /\ SubSeq(merged, 1, n) = existing
            /\ \A k \in 1..Cardinality(new) :
                   merged[n + k] = additions[Nth(new, k)]

\* the merge of test_merge_sources_dedupes has returned: the existing source
\* won the URL collision and both sources of the second domain were added
C20_Witness ==
    /\ args = [existing |-> <<SrcA>>, additions |-> <<SrcA2, SrcB, SrcB2>>]
    /\ ret = << <<SrcA, SrcB, SrcB2>> >>

----------------------------------------------------------------------------
(* Claims about run (SpecRun) *)

\* an iteration ended in the except branch of the main loop
C15_ErrorStep ==
    error_run'.len = error_run.len + 1 =>
        /\ last_sleep' = "error_backoff_seconds" <=> consecutive_errors + 1 >= 5
        /\ last_sleep' # "error_backoff_seconds" => last_sleep' = "5"
        /\ consecutive_errors' =
               IF consecutive_errors + 1 >= 5 THEN 0 ELSE consecutive_errors + 1

\* the scenario: errors in a row, starting with the counter at 0
C15_Scenario ==
    (error_run.len >= 1 /\ error_run.base = 0) =>
        /\ error_run.len < 5 =>
               last_sleep = "5" /\ consecutive_errors = error_run.len
        /\ error_run.len = 5 =>
               last_sleep = "error_backoff_seconds" /\ consecutive_errors = 0
        /\ error_run.len = 6 =>
               last_sleep = "5" /\ consecutive_errors = 1

\* C15: an error of the main loop triggers the sleep of
\* error_backoff_seconds exactly when it brings the counter to
\* max_consecutive_errors (5), and the counter is then reset to 0; of six
\* errors in a row from a counter of 0 the fifth triggers the backoff and
\* the sixth leaves the counter at 1.
C15_ErrorBackoff == []C15_Scenario /\ [][C15_ErrorStep]_vars

\* six iterations in a row ended with an error, from a counter of 0
C15_Witness ==
    /\ error_run.len = 6
    /\ error_run.base = 0

\* C16: never more than one deregistration call is sent, also when several
\* shutdown signals arrive, and when run has returned after its main loop
\* exactly one has been sent.
C16_OneDeregistration ==
    /\ offline_calls <= 1
    /\ exit_status = "0" => offline_calls = 1

\* a heartbeat failed: a status other than 200 or an exception
C17_FailedHeartbeatStep ==
    heartbeat'.failed # heartbeat.failed =>
        /\ exit_status' = exit_status
        /\ UNCHANGED <<selVars, coolVars, dedupVars, dispVars, running, cycles,
                       last_sleep, error_run, offline_calls>>
        /\ heartbeat'.by = "thread" => (heartbeat'.alive /\ run_pc' = run_pc)
        /\ heartbeat'.by = "run" => run_pc' = "loop"

\* C17: a failed heartbeat, by exception or by a status other than 200,
\* does not leave the heartbeat path: the scheduler state is unchanged, the
\* heartbeat thread stays alive and run goes on.
C17_HeartbeatFailureSwallowed == [][C17_FailedHeartbeatStep]_vars

\* the heartbeat thread has had a failed heartbeat and the main loop has
\* run iterations while the thread is alive
C17_Witness ==
    /\ heartbeat.by = "thread"
    /\ heartbeat.failed >= 1
    /\ heartbeat.alive
    /\ run_pc = "loop"
    /\ cycles >= 2

C18_RunStep ==
    /\ (exit_status' # exit_status /\ exit_status' # "0") =>
           (run_pc \in {"chrome_check", "connect"} /\ exit_status' = "1")
    /\ run_pc = "loop" =>
           \/ run_pc' = "loop"
           \/ (~running /\ exit_status' = "0" /\ run_pc' = "returned")

\* C18: run returns a status other than 0 only from the start-up checks,
\* before the main loop; once in the loop, run stays in it whatever an
\* iteration does, until the running flag is cleared, and then returns 0.
C18_OnlyStartupIsFatal == [][C18_RunStep]_vars

\* run has returned 0 after iterations of the main loop, the last of which
\* ended with an error
C18_Witness ==
    /\ exit_status = "0"
    /\ error_run.len >= 1
    /\ cycles >= 2

----------------------------------------------------------------------------
(* Claims about the RequestQueue (SpecPacing) *)

C13_BackoffStep ==
    pace_call'.n # pace_call.n =>
        current_backoff_level' =
            IF pace_call'.success
            THEN (IF current_backoff_level >= 1 THEN current_backoff_level - 1 ELSE 0)
            ELSE (IF current_backoff_level + 2 <= 10 THEN current_backoff_level + 2 ELSE 10)

\* the level, counted in halves, is between 0 and 5
C13_BackoffInRange ==
    0 <= current_backoff_level /\ current_backoff_level <= 2 * 5

\* C13: after any sequence of recorded outcomes the backoff level is within
\* [0, 5]; a failure raises it by 1, capped at 5, and a success lowers it
\* by 0.5, floored at 0.
C13_BackoffLevel == []C13_BackoffInRange /\ [][C13_BackoffStep]_vars

\* a failure was recorded at level 5 and left the level at 5
C13_Witness ==
    /\ pace_call.n >= 6
    /\ pace_call.op = "record"
    /\ ~pace_call.success
    /\ current_backoff_level = 10

\* C14: the delay calculate_delay returns is never negative, never below
\* min_delay, and without what the burst, night and thinking steps added
\* never above backoff_base^5 * max_delay.
C14_DelayBounds ==
    delay # <<>> =>
        LET r == delay[1]
        IN  /\ r.delay >= 0
            /\ r.delay >= MinDelaySeconds * Scale
            /\ r.delay - (r.burst_added + r.night_added + r.thinking_added)
                   <= 759375 * MaxDelaySeconds

\* a delay computed at the highest backoff level, near the burst limit, at
\* night and with a thinking pause
C14_Witness ==
    /\ delay # <<>>
    /\ delay[1].level = 10
    /\ delay[1].recent_requests >= MaxRequestsPerWindow
    /\ delay[1].night_added > 0
    /\ delay[1].thinking_added > 0

\* C30: when at least max_requests_per_window requests were recorded in the
\* last burst_window_seconds, the burst step adds between 30 and 60 seconds
\* to the delay the base and backoff steps computed.
C30_BurstDelayAdded ==
    (delay # <<>> /\ delay[1].recent_requests >= MaxRequestsPerWindow) =>
        /\ delay[1].burst_added >= Sec(30)
        /\ delay[1].burst_added <= Sec(60)

----------------------------------------------------------------------------
(* Claims about the pacing delay and the cooldown tracking (SpecSpacing) *)

\* C23: the delay calculate_delay returns for a request to a target is at
\* least the time remaining in the cooldown that the cooldown tracking holds
\* for the target: its base cooldown plus 10 s per counted error, minus the
\* time since the last request recorded for it.
C23_DelayCoversCooldown ==
    (delay # <<>> /\ args # <<>>) =>
        delay[1].delay >= Sec(get_engine_cooldown_remaining(args[1]))

----------------------------------------------------------------------------
(* Claims about the cooldown tracking (SpecCooldown) *)

BaseCooldown(e) == Get(EngineCooldowns, e, DefaultCooldown)

\* the last record_engine_request for e happened at the current instant
JustRecorded(e) == e \in DOMAIN engine_last_request /\ engine_last_request[e] = now

\* C8 as stated: immediately after a run of k >= 1 consecutive
\* record(T, False) calls, can_process_engine(T) is (False, base + 10 * k).
C8_RemainingAfterRun ==
    \A e \in CoolEngines :
        (fail_run[e] >= 1 /\ JustRecorded(e)) =>
            can_process_engine(e) = <<FALSE, BaseCooldown(e) + 10 * fail_run[e]>>

\* C8 amended: immediately after a run of k >= 1 consecutive
\* record(T, False) calls that started when T's error counter was c,
\* can_process_engine(T) is (False, base + 10 * (c + k)); for a run that
\* starts from a counter of 0 this is base + 10 * k.
C8_RemainingAfterRunFromCount ==
    \A e \in CoolEngines :
        (fail_run[e] >= 1 /\ JustRecorded(e)) =>
            can_process_engine(e) =
                <<FALSE, BaseCooldown(e) + 10 * (run_base[e] + fail_run[e])>>

\* a failure has just been recorded for an engine whose counter was not 0
\* when the run of failures began
C8_Witness ==
    \E e \in CoolEngines :
        /\ fail_run[e] >= 1
        /\ run_base[e] >= 1
        /\ JustRecorded(e)
        /\ ~can_process_engine(e)[1]

\* C9: every error counter is a natural number; a record(T, False) adds 1 to
\* T's counter, a record(T, True) subtracts 1 but not below 0, no other
\* counter changes; and the cooldown computed for T is base + 10 * counter.
C9_CounterStep ==
    LET e   == last_record'.engine
        old == Get(engine_error_count, e, 0)
        new == Get(engine_error_count', e, 0)
    IN  last_record'.n # last_record.n =>
            /\ new = IF last_record'.success
                     THEN (IF old >= 1 THEN old - 1 ELSE 0)
                     ELSE old + 1
            /\ \A o \in CoolEngines \ {e} :
                   Get(engine_error_count', o, 0) = Get(engine_error_count, o, 0)

C9_CounterState ==
    /\ \A e \in DOMAIN engine_error_count : engine_error_count[e] \in Nat
    /\ \A e \in CoolEngines :
           EffectiveCooldown(engine_error_count, e) =
               BaseCooldown(e) + 10 * Get(engine_error_count, e, 0)

C9_ErrorCounter == []C9_CounterState /\ [][C9_CounterStep]_vars

\* a success has just lowered a counter from 2 to 1
C9_Witness ==
    /\ last_record.n >= 3
    /\ last_record.success
    /\ Get(engine_error_count, last_record.engine, 0) = 1

----------------------------------------------------------------------------
(* Claims about select_jobs_for_parallel (SpecSelect) *)

\* jobs of the fetched batch for engine e
JobsOf(e) == {jobs[i] : i \in {k \in 1..Len(jobs) : jobs[k].engine = e}}

\* j is at least as good as k: higher priority, or the same priority and not
\* later in fetch order (ids number the batch in fetch order)
Beats(j, k) ==
    \/ PriorityOrder(j.priority) < PriorityOrder(k.priority)
    \/ /\ PriorityOrder(j.priority) = PriorityOrder(k.priority)
       /\ j.id <= k.id

\* C1: in every selection returned by select_jobs_for_parallel no two jobs
\* have the same engine, whatever the batch and the configured cap.
C1_OneJobPerEngine ==
    pc = "selected" =>
        \A i, k \in 1..Len(parallel_jobs) :
            i # k => parallel_jobs[i].engine # parallel_jobs[k].engine

\* a batch with three or more jobs of one engine has been selected from
C1_Witness ==
    /\ pc = "selected"
    /\ Len(parallel_jobs) >= 1
    /\ \E e \in Engines : Cardinality(JobsOf(e)) >= 3

\* C2: every selected job is a fetched job, and it beats every other fetched
\* job of its engine: none has a higher priority, and among those of equal
\* priority it is the earliest in fetch order.
C2_BestJobPerEngine ==
    pc = "selected" =>
        \A i \in 1..Len(parallel_jobs) :
            /\ parallel_jobs[i] \in Range(jobs)
            /\ \A k \in JobsOf(parallel_jobs[i].engine) : Beats(parallel_jobs[i], k)

\* the selected job of an engine was fetched after a lower-priority job and
\* before an equal-priority job of the same engine
C2_Witness ==
    /\ pc = "selected"
    /\ \E i \in 1..Len(parallel_jobs) :
          \E a, b \in JobsOf(parallel_jobs[i].engine) :
              /\ a.id < parallel_jobs[i].id
              /\ PriorityOrder(a.priority) > PriorityOrder(parallel_jobs[i].priority)
              /\ b.id > parallel_jobs[i].id
              /\ b.priority = parallel_jobs[i].priority

\* engines present in the batch, in preference order: engine_order first,
\* then the engines outside engine_order
RECURSIVE PresentKnown(_)
PresentKnown(i) ==
    IF i > Len(EngineOrder) THEN <<>>
    ELSE (IF JobsOf(EngineOrder[i]) # {} THEN <<EngineOrder[i]>> ELSE <<>>)
         \o PresentKnown(i + 1)

RECURSIVE SetToSeq(_)
SetToSeq(S) ==
    IF S = {} THEN <<>>
    ELSE LET x == CHOOSE x \in S : TRUE IN <<x>> \o SetToSeq(S \ {x})

PresentEngines ==
    PresentKnown(1) \o
    SetToSeq({e \in Engines \ Range(EngineOrder) : JobsOf(e) # {}})

BestJobOf(e) == CHOOSE j \in JobsOf(e) : \A k \in JobsOf(e) : Beats(j, k)

\* C36: the job select_best_job picks from a fetched batch is the one job
\* that select_jobs_for_parallel returns for the batch when
\* max_parallel_engines is 1; for an empty batch neither picks a job.
C36_SequentialIsParallelOfOne ==
    pc = "selected_best" =>
        select_jobs_for_parallel(jobs, 1) = ret[1]

\* C3: the selection holds at most max_parallel jobs and is exactly the best
\* job of each of the first max_parallel engines present, in preference
\* order.
C3_CapAndPreference ==
    pc = "selected" =>
        /\ Len(parallel_jobs) <= max_parallel_engines
        /\ parallel_jobs =
              [i \in 1..Min(max_parallel_engines, Len(PresentEngines)) |->
                  BestJobOf(PresentEngines[i])]

----------------------------------------------------------------------------
(* Claims about parallel dispatch (SpecDispatch) *)

\* the jobs of the current cycle that have been handed to an execution unit
Dispatched == DOMAIN unit \cap Ids(parallel_jobs)

\* the units that have been submitted and have not finished, per engine
InFlight(e) ==
    {id \in DOMAIN unit : unit[id].engine = e /\ unit[id].state \in InFlightStates}

\* the ids of the jobs of the current cycle that as_completed timed out on
TimedOutIds == {t.id : t \in timed_out} \cap DOMAIN outcome

\* the terminal outcomes of a claimed job: those the scheduler recorded, and
\* the timeout of its unit
Outcomes(id) ==
    outcome[id] \o (IF id \in TimedOutIds THEN <<"timed_out">> ELSE <<>>)

\* C4: once the units of a cycle have been submitted, the jobs dispatched
\* are exactly the selected jobs that the Job Source accepted in the claim
\* call: a job the Source refused is not dispatched, an accepted one is.
C4_DispatchedAreAccepted ==
    pc \in {"collect", "shutdown"} =>
        Dispatched = Ids(parallel_jobs) \cap accepted

\* C5: at every instant, in a cycle and across cycles, at most one execution
\* unit is in flight for an engine; a unit that timed out counts while it
\* has not finished.
C5_OneInFlightPerEngine ==
    \A e \in DispEngines : Cardinality(InFlight(e)) <= 1

\* a unit is in flight for an engine in a cycle that follows the time-out of
\* an earlier unit for the same engine
C5_Witness ==
    \E t \in timed_out : \E id \in InFlight(t.engine) : id # t.id

\* C6: a claimed job never has two terminal outcomes nor two patch_status
\* calls, and when its cycle is over it has exactly one terminal outcome
\* (completed, failed, skipped or timed out) and, unless it was skipped,
\* exactly one patch_status call.
C6_OneOutcomeOnePatch ==
    /\ \A id \in DOMAIN outcome :
          Len(Outcomes(id)) <= 1 /\ Len(patch_calls[id]) <= 1
    /\ pc = "loop" =>
          \A id \in DOMAIN outcome :
              /\ Len(Outcomes(id)) = 1
              /\ Outcomes(id) # <<"skipped">> => Len(patch_calls[id]) = 1

\* C22: a job is handed to an execution unit only when its target is out of
\* its cooldown, that is when base + 10 * error_count seconds have passed
\* since the last request recorded for the target; in particular a cycle in
\* which every fetched target is in cooldown dispatches nothing.
C22_DispatchStep ==
    \A id \in DOMAIN unit' \ DOMAIN unit :
        can_process_engine(unit'[id].engine)[1]

C22_NoDispatchInCooldown == [][C22_DispatchStep]_vars

\* C19: a result marked skipped is handled without a call of the completion
\* endpoint and without a patch_status call; jobs_skipped grows by 1 and
\* jobs_processed and jobs_failed keep their values.
C19_SkippedStep ==
    \A id \in finished_batch :
        (unit[id].state = "skipped" /\ finished_batch' = finished_batch \ {id})
            => /\ ingest_calls' = ingest_calls
               /\ patch_calls' = patch_calls
               /\ stats'.jobs_skipped = stats.jobs_skipped + 1
               /\ stats'.jobs_processed = stats.jobs_processed
               /\ stats'.jobs_failed = stats.jobs_failed

C19_SkippedNotReported == [][C19_SkippedStep]_vars

\* a skipped result has been handled
C19_Witness ==
    \E id \in DOMAIN unit :
        /\ unit[id].state = "skipped"
        /\ id \notin finished_batch
        /\ id \notin pending
        /\ stats.jobs_skipped > 0

\* C24: handling a result that was skipped as a duplicate leaves the error
\* count of the job's target, and with it the effective cooldown of the
\* target, as they were.
C24_SkippedStep ==
    \A id \in finished_batch :
        (unit[id].state = "skipped" /\ finished_batch' = finished_batch \ {id})
            => /\ Get(engine_error_count', unit[id].engine, 0)
                      = Get(engine_error_count, unit[id].engine, 0)
               /\ EffectiveCooldown(engine_error_count', unit[id].engine)
                      = EffectiveCooldown(engine_error_count, unit[id].engine)

C24_SkippedLeavesCooldown == [][C24_SkippedStep]_vars

\* C25: for every result that is not skipped, complete_job makes one call
\* of the completion endpoint and then one patch_status call, and the
\* success flag of the patch_status call is the success flag of the result,
\* whatever the completion call answered, a failure to answer included.
C25_ReportStep ==
    \A id \in finished_batch :
        (unit[id].state \in {"ok", "fail"} /\ finished_batch' = finished_batch \ {id})
            => /\ ingest_calls'[id] = ingest_calls[id] + 1
               /\ patch_calls'[id] = Append(patch_calls[id], unit[id].state = "ok")

C25_PatchCarriesResultFlag == [][C25_ReportStep]_vars

\* C26: handling the result of a job whose adapter failed or raised adds
\* exactly 1 to the error count of the job's target, leaves the last
\* request time and the error count of every other target as they were,
\* and reports the failure to the Job Source: a patch_status call with
\* success = false, after a call of the completion endpoint when the unit
\* returned a result.
C26_FailureStep ==
    \A id \in finished_batch :
        (unit[id].state \in {"fail", "raised"} /\ finished_batch' = finished_batch \ {id})
            => /\ Get(engine_error_count', unit[id].engine, 0)
                      = Get(engine_error_count, unit[id].engine, 0) + 1
               /\ \A e \in Engines \ {unit[id].engine} :
                      /\ Get(engine_error_count', e, 0) = Get(engine_error_count, e, 0)
                      /\ Get(engine_last_request', e, 0) = Get(engine_last_request, e, 0)
               /\ patch_calls'[id] = Append(patch_calls[id], FALSE)
               /\ unit[id].state = "fail" => ingest_calls'[id] = ingest_calls[id] + 1

C26_AdapterFailureRecorded == [][C26_FailureStep]_vars

\* the failed result of one target has been handled after another target
\* had its own failure counted
C26_Witness ==
    \E id \in DOMAIN unit :
        /\ unit[id].state = "fail"
        /\ id \in DOMAIN patch_calls
        /\ patch_calls[id] = <<FALSE>>
        /\ Get(engine_error_count, unit[id].engine, 0) = 1
        /\ \E e \in Engines \ {unit[id].engine} : Get(engine_error_count, e, 0) = 1

\* C27: under dispatch to processes, a unit that starts a job whose
\* normalized prompt went to the adapter for the same target in an earlier
\* cycle, within the window of the deduplicator, returns it as skipped and
\* does not submit the prompt again.
C27_StartStep ==
    \A id \in DOMAIN unit \cap DOMAIN unit' :
        ( /\ use_multiprocessing
          /\ unit[id].state = "submitted"
          /\ unit'[id].state \in {"running", "skipped"}
          /\ <<unit[id].engine, NormalizePrompt(unit[id].prompt_text)>> \in prompts_run )
            => unit'[id].state = "skipped"

C27_DuplicateSkippedAcrossCycles == [][C27_StartStep]_vars

\* C28: under dispatch to processes, when the scheduler handles the result
\* of a job that was not skipped, the outcome reaches the RequestQueue of
\* the worker, from which the delays of later jobs are computed: the request
\* is added to its history, and a failure raises its backoff level by 1,
\* up to 5 (the level is kept in halves).
C28_FeedStep ==
    \A id \in finished_batch :
        ( /\ use_multiprocessing
          /\ unit[id].state \in {"ok", "fail"}
          /\ finished_batch' = finished_batch \ {id} )
            => /\ Len(request_history') = Len(request_history) + 1
               /\ unit[id].state = "fail" =>
                      current_backoff_level' =
                          BackoffAfter(current_backoff_level, FALSE)

C28_OutcomeFeedsPacing == [][C28_FeedStep]_vars

\* C7: when a cycle in which as_completed timed out is over, every job whose
\* unit had not returned has exactly one failed result and exactly one
\* patch_status call, with success = false, and every other job of the
\* cycle has its one terminal outcome.
C7_TimeoutReportedOnce ==
    (pc = "loop" /\ TimedOutIds # {}) =>
        /\ \A id \in TimedOutIds :
              outcome[id] = <<"failed">> /\ patch_calls[id] = <<FALSE>>
        /\ \A id \in DOMAIN outcome \ TimedOutIds : Len(outcome[id]) = 1

\* C21: when as_completed has timed out on a job, the Scheduler can leave the
\* cycle and go on to the next one at once, also while the execution unit
\* that timed out is still running: it does not wait for that unit to exit.
C21_NoWaitForTimedOutUnit ==
    pc = "shutdown" => ENABLED DispExecutorExit

----------------------------------------------------------------------------
(* Claims about the session breaks (SpecSession) *)

\* C29: an iteration of the main loop that starts when the number of jobs
\* run in the session is a positive multiple of 10, and that has not slept
\* the break for that number yet, sleeps the break of 60 to 120 s before it
\* dispatches, in the parallel mode as in the sequential one.
C29_CycleStep ==
    ( /\ cycles' = cycles + 1
      /\ jobs_run > 0
      /\ jobs_run % 10 = 0
      /\ break_taken # "uniform(60, 120)" )
        => break_taken' = "uniform(60, 120)"

C29_BreakAfterTenJobs == [][C29_CycleStep]_vars

----------------------------------------------------------------------------
(* Claims about shutdown (SpecShutdown) *)

\* C31: once the running flag has been cleared while wait_for_slot sleeps,
\* the wait sleeps no further chunk of the remaining delay.
C31_WaitStep == wait'.remaining < wait.remaining => running

C31_WaitInterruptible == [][C31_WaitStep]_vars

\* C38: after a deregistration call has been sent, the Job Source receives
\* no heartbeat with status "active".
C38_HeartbeatStep ==
    ( /\ heartbeat'.calls = heartbeat.calls + 1
      /\ heartbeat'.failed = heartbeat.failed )
        => offline_calls = 0

C38_NoHeartbeatAfterOffline == [][C38_HeartbeatStep]_vars

----------------------------------------------------------------------------
(* Claims about the error counter of the main loop (SpecLoop) *)

\* C34: an iteration whose fetch got no batch from the Job Source counts as
\* a main-loop error: the counter goes up by one, or, when that reaches
\* max_consecutive_errors, the loop sleeps error_backoff_seconds and the
\* counter is reset.
C34_FetchStep ==
    fetch_failures' = fetch_failures + 1 =>
        IF consecutive_errors + 1 >= MaxConsecutiveErrors
        THEN last_sleep' = "error_backoff_seconds" /\ consecutive_errors' = 0
        ELSE consecutive_errors' = consecutive_errors + 1

C34_FetchFailureCounts == [][C34_FetchStep]_vars

\* C39: whenever an iteration of the main loop starts, the counter of
\* consecutive errors is below max_consecutive_errors.
C39_CounterBelowThreshold ==
    run_pc = "loop" => consecutive_errors < MaxConsecutiveErrors

\* C37: a step of an execution unit (a unit that begins its job) leaves the
\* history of the deduplicator and the session counter as they were: only
\* the scheduler's own thread writes them.
C37_UnitStep ==
    (\E id \in DOMAIN unit \cap DOMAIN unit' :
        /\ unit[id].state = "submitted"
        /\ unit'[id].state \in {"running", "skipped"})
    => /\ recent_prompts' = recent_prompts
       /\ prompts_this_session' = prompts_this_session

C37_UnitsNeverWriteHistory == [][C37_UnitStep]_vars

\* C40: whenever a dispatch cycle is over, however it ended, the counters
\* jobs_processed, jobs_failed and jobs_skipped add up to the number of jobs
\* claimed so far: each claimed job has been counted exactly once.
C40_StatsSumIsClaimed ==
    pc = "loop" =>
        stats.jobs_processed + stats.jobs_failed + stats.jobs_skipped = jobs_claimed

\* C35: once the running flag is cleared the scheduler issues no claim call
\* and submits no execution unit: every step that makes a claim call or
\* creates a unit is taken while the flag is set.
C35_ClaimOrSubmitStep ==
    \/ pc = "claim" /\ pc' # "claim"
    \/ \E id \in DOMAIN unit' :
          /\ unit'[id].state = "submitted"
          /\ id \in DOMAIN unit => unit[id].state # "submitted"

C35_NoClaimAfterShutdown == [][C35_ClaimOrSubmitStep => running]_vars

====
